---- MODULE Spec2Model ----
(***************************************************************************)
(* Model of the pronunciation coach's scoring and feedback code:           *)
(*   src/src/utils/phonemeUtils.ts     comparePhonemes, getLetterGrade,    *)
(*                                     generatePronunciationFeedback,      *)
(*                                     calculateStringSimilarity           *)
(*   src/src/agents/ComparisonAgent.ts compareTexts, analyzeErrors,        *)
(*                                     calculateDifficulty                 *)
(*   src/src/agents/FeedbackAgent.ts   generateFeedback,                   *)
(*                                     generateMotivationalMessage         *)
(*   src/src/phrases.ts                analyzeDifficulty                   *)
(*   src/src/agents/TranscriptionAgent.ts  transcribeAudio                 *)
(*   src/unnamed/part_003              PronCoachAgent.processRecording     *)
(*   src/src/agents/PracticeAgent.ts   recordSession, getStats, importData,*)
(*                                     exportData, resetStats, saveStats,  *)
(*                                     loadStats, getProgressTrend,        *)
(*                                     getRecommendedDifficulty            *)
(*   src/unnamed/part_002              Recorder                            *)
(*   src/src/components/PracticeLoop.tsx  PracticeLoop                     *)
(*                                                                         *)
(* A text is a sequence of one-character strings.  A JavaScript number is  *)
(* an exact rational [n |-> numerator, d |-> denominator] with d > 0.      *)
(***************************************************************************)
EXTENDS Integers, Sequences, FiniteSets, TLC

VARIABLES
    \* text comparison (ComparisonAgent, comparePhonemes)
    userText,        \* first argument of the comparison call
    targetText,      \* second argument of the comparison call
    op,              \* the ComparisonAgent / phonemeUtils function last applied
    score,           \* number returned by compareTexts / comparePhonemes
    report,          \* object returned by analyzeErrors
    \* letter grade (getLetterGrade)
    gradeScore,      \* the argument, a rational number
    grade,           \* the token returned, "none" before the call
    \* feedback (FeedbackAgent.generateFeedback, generatePronunciationFeedback)
    fbUserText,      \* argument userText
    fbTargetText,    \* argument targetText
    fbScore,         \* argument score
    fbOp,            \* the function last applied
    feedback,        \* the list of messages returned
    \* motivation (FeedbackAgent.generateMotivationalMessage)
    currentScore,    \* argument currentScore
    previousScores,  \* argument previousScores
    message,         \* the message returned, "none" before the call
    \* difficulty (phrases.analyzeDifficulty, ComparisonAgent.calculateDifficulty)
    dfText,          \* the phrase handed to the function
    dfOp,            \* the function last applied
    dfTier,          \* tier returned by analyzeDifficulty, "none" before the call
    dfRating,        \* number returned by calculateDifficulty, 0 before the call
    \* word similarity (calculateStringSimilarity, levenshteinDistance)
    simStr1,         \* argument str1
    simStr2,         \* argument str2
    simOp,           \* the function last applied
    simDistance,     \* number returned by levenshteinDistance
    simSimilarity,   \* number returned by calculateStringSimilarity
    \* calls with absent arguments (null, undefined)
    mfUserText,      \* argument userText, a text, null or undefined
    mfTargetText,    \* argument targetText, a text, null or undefined
    mfOp,            \* the function last applied
    mfOutcome,       \* how the call ended: "returned" or "threw"
    mfScore,         \* the number returned, 0 when none was
    \* recording pipeline (PronCoachAgent.processRecording, TranscriptionAgent)
    plAudioBlob,     \* argument audioBlob: null or a blob, given by its size
    plTargetText,    \* argument targetText
    plRecognition,   \* TranscriptionAgent.recognition is not null
    plPhase,         \* where the call of processRecording stands
    plTranscription, \* what transcribeAudio resolved with
    plResult,        \* the object the promise resolved with
    \* practice statistics (PracticeAgent)
    sessionHistory,  \* PracticeAgent.sessionHistory
    storage,         \* the sessionHistory saved in localStorage, "none" when absent
    storageAvailable,\* localStorage.setItem succeeds
    recorded,        \* every score handed to recordSession so far, in order
    practiceOp,      \* the method last called
    stats,           \* object returned by getStats
    importArg,       \* argument of importData
    importResult,    \* value returned by importData
    threw,           \* the method last called ended with an exception
    storageReadable, \* localStorage.getItem succeeds
    exported,        \* object returned by exportData
    otherHistory,    \* sessionHistory of a second PracticeAgent
    otherShares,     \* the second agent's array is the one inside exported
    \* progress trend and recommended difficulty (PracticeAgent)
    trScores,        \* the scores recorded on a fresh PracticeAgent
    trHistory,       \* PracticeAgent.sessionHistory afterwards
    trOp,            \* the method last called
    trTrend,         \* object returned by getProgressTrend
    trDifficulty,    \* number returned by getRecommendedDifficulty, 0 before the call
    \* Recorder and PracticeLoop: one practice session on the page
    loopCurrentText, \* PracticeLoop state currentText, <<>> for ''
    loopSessionStarted,\* PracticeLoop state sessionStarted
    loopIsRecording, \* PracticeLoop state isRecording
    loopFeedback,    \* PracticeLoop state feedback, with the target it was computed against
    loopLoading,     \* PracticeLoop state loading
    loopTimer,       \* PracticeLoop state timer
    loopTimerActive, \* PracticeLoop state timerActive
    loopPending,     \* the processRecording calls that have not returned
    loopSessions,    \* the sessions handed to recordPracticeSession
    recIsRecording,  \* Recorder state isRecording
    recHasPermission,\* Recorder state hasPermission
    recRecordingTime,\* Recorder state recordingTime
    recMediaRecorder,\* state of mediaRecorderRef.current
    recTimerRef,     \* timerRef.current holds a running interval
    recClosure,      \* what the callbacks made by startRecording captured
    recStopEvent     \* a stop event of the MediaRecorder waits for onstop

compareVars == <<userText, targetText, op, score, report>>

gradeVars == <<gradeScore, grade>>

feedbackVars == <<fbUserText, fbTargetText, fbScore, fbOp, feedback>>

motivationVars == <<currentScore, previousScores, message>>

difficultyVars == <<dfText, dfOp, dfTier, dfRating>>

similarityVars == <<simStr1, simStr2, simOp, simDistance, simSimilarity>>

malformedVars == <<mfUserText, mfTargetText, mfOp, mfOutcome, mfScore>>

pipelineVars == <<plAudioBlob, plTargetText, plRecognition, plPhase, plTranscription,
                  plResult>>

practiceVars == <<sessionHistory, storage, storageAvailable, recorded, practiceOp,
                  stats, importArg, importResult, threw, storageReadable, exported,
                  otherHistory, otherShares>>

trendVars == <<trScores, trHistory, trOp, trTrend, trDifficulty>>

sessionVars == <<loopCurrentText, loopSessionStarted, loopIsRecording,
                 loopFeedback, loopLoading, loopTimer, loopTimerActive,
                 loopPending, loopSessions, recIsRecording, recHasPermission,
                 recRecordingTime, recMediaRecorder, recTimerRef, recClosure,
                 recStopEvent>>

vars == <<compareVars, gradeVars, feedbackVars, motivationVars,
          difficultyVars, similarityVars, malformedVars, pipelineVars,
          practiceVars, trendVars, sessionVars>>

\* what each group of functions leaves alone
notCompareVars == <<gradeVars, feedbackVars, motivationVars, difficultyVars,
                    similarityVars, malformedVars, pipelineVars, practiceVars,
                    trendVars, sessionVars>>

notGradeVars == <<compareVars, feedbackVars, motivationVars, difficultyVars,
                  similarityVars, malformedVars, pipelineVars, practiceVars,
                  trendVars, sessionVars>>

notFeedbackVars == <<compareVars, gradeVars, motivationVars, difficultyVars,
                     similarityVars, malformedVars, pipelineVars,
                     practiceVars, trendVars, sessionVars>>

notMotivationVars == <<compareVars, gradeVars, feedbackVars, difficultyVars,
                       similarityVars, malformedVars, pipelineVars,
                       practiceVars, trendVars, sessionVars>>

notDifficultyVars == <<compareVars, gradeVars, feedbackVars, motivationVars,
                       similarityVars, malformedVars, pipelineVars,
                       practiceVars, trendVars, sessionVars>>

notSimilarityVars == <<compareVars, gradeVars, feedbackVars, motivationVars,
                       difficultyVars, malformedVars, pipelineVars,
                       practiceVars, trendVars, sessionVars>>

notMalformedVars == <<compareVars, gradeVars, feedbackVars, motivationVars,
                      difficultyVars, similarityVars, pipelineVars,
                      practiceVars, trendVars, sessionVars>>

notPipelineVars == <<compareVars, gradeVars, feedbackVars, motivationVars,
                     difficultyVars, similarityVars, malformedVars,
                     practiceVars, trendVars, sessionVars>>

notPracticeVars == <<compareVars, gradeVars, feedbackVars, motivationVars,
                     difficultyVars, similarityVars, malformedVars,
                     pipelineVars, trendVars, sessionVars>>

notTrendVars == <<compareVars, gradeVars, feedbackVars, motivationVars,
                  difficultyVars, similarityVars, malformedVars, pipelineVars,
                  practiceVars, sessionVars>>

notSessionVars == <<compareVars, gradeVars, feedbackVars, motivationVars,
                    difficultyVars, similarityVars, malformedVars,
                    pipelineVars, practiceVars, trendVars>>

----------------------------------------------------------------------------
(* Bounds of the model *)

\* longest text of arbitrary characters
MaxLen == 4

\* most words of a phrase
MaxWords == 3

\* the scores handed to getLetterGrade are multiples of 1/GradeResolution
GradeResolution == 10

\* how far below 0 and above 100 the scores handed to getLetterGrade reach
GradeOvershoot == 10

\* longest feedback text of arbitrary characters
MaxFeedbackLen == 2

\* the numeric scores are the multiples of ScoreStep
ScoreStep == 5

\* most multiples of ScoreStep a feedback score is made of
MaxScoreSteps == 20

\* most multiples of ScoreStep a session score is made of
MaxSessionSteps == 3

\* most previous scores handed to generateMotivationalMessage
MaxPrevious == 4

\* longest phrase of arbitrary characters handed to the difficulty functions
MaxDifficultyLen == 6

\* longest word of the longer phrases handed to the difficulty functions
MaxWordLen == 8

\* most words of the longer phrases handed to the difficulty functions
MaxPhraseWords == 16

\* longest word handed to the similarity functions
MaxSimLen == 4

\* most words of a target text that is the beginning of a transcription
MaxTargetWords == 6

\* most calls of recordSession
MaxRecords == 52

\* how often at most a recorded score differs from the one before it
MaxScoreChanges == 1

\* longest array handed to importData
MaxImportLen == 2

\* writes to localStorage after which no more data is imported
MaxWrites == 3

\* longest run of one score in the lists handed to the trend functions
MaxTrendRun == 6

\* most sessions the second agent records
MaxOtherRecords == 1

\* seconds after which the interval of the Recorder is followed no further
MaxRecordingTime == 31

\* most recordings made on the page
MaxLoopSessions == 2

----------------------------------------------------------------------------
(* Characters and strings *)

Whitespace == {" "}

\* the characters of the arbitrary texts: a letter in both cases, whitespace
RawChars == {"a", "A"} \cup Whitespace

\* every text of at most MaxLen characters: empty, whitespace only, leading,
\* trailing and repeated whitespace, mixed case
RawTexts == UNION {[1..k -> RawChars] : k \in 0..MaxLen}

\* the words of the phrases
Vocabulary == {<<"a">>, <<"b">>, <<"a", "b">>}

RECURSIVE joinWords(_)
joinWords(ws) ==
    IF ws = <<>> THEN <<>>
    ELSE IF Len(ws) = 1 THEN ws[1]
    ELSE ws[1] \o <<" ">> \o joinWords(Tail(ws))

\* every phrase of 1..MaxWords words of the vocabulary, single-spaced
Phrases == {joinWords(ws) : ws \in UNION {[1..k -> Vocabulary] : k \in 1..MaxWords}}

Texts == RawTexts \cup Phrases

\* String.prototype.toLowerCase on one character (of the characters in use)
lowerChar(c) ==
    CASE c = "A" -> "a"
      [] c = "R" -> "r"
      [] c = "T" -> "t"
      [] OTHER -> c

\* String.prototype.toUpperCase on one character (used to vary the input)
upperChar(c) ==
    CASE c = "a" -> "A"
      [] c = "r" -> "R"
      [] c = "t" -> "T"
      [] OTHER -> c

\* String.prototype.toLowerCase
toLowerCase(s) == [i \in 1..Len(s) |-> lowerChar(s[i])]

RECURSIVE trimStart(_)
trimStart(s) ==
    IF s # <<>> /\ Head(s) \in Whitespace THEN trimStart(Tail(s)) ELSE s

RECURSIVE trimEnd(_)
trimEnd(s) ==
    IF s # <<>> /\ s[Len(s)] \in Whitespace
    THEN trimEnd(SubSeq(s, 1, Len(s) - 1))
    ELSE s

\* String.prototype.trim
trim(s) == trimEnd(trimStart(s))

\* the element of the set S of numbers that has m - 1 smaller ones in S
nthOf(S, m) == CHOOSE k \in S : Cardinality({j \in S : j < k}) = m - 1

\* String.prototype.split(/\s+/): cut at every maximal run of whitespace.
\* There is one piece more than there are runs: the piece before the first
\* run, those between two runs, and the piece behind the last run, so ""
\* gives [""] and " a" gives ["", "a"].
splitWhitespace(s) ==
    LET runStarts == {k \in 1..Len(s) : s[k] \in Whitespace
                                         /\ (k = 1 \/ s[k - 1] \notin Whitespace)}
        runEnds   == {k \in 1..Len(s) : s[k] \in Whitespace
                                         /\ (k = Len(s) \/ s[k + 1] \notin Whitespace)}
        pieces    == Cardinality(runStarts) + 1
        from(m)   == IF m = 1 THEN 1 ELSE nthOf(runEnds, m - 1) + 1
        to(m)     == IF m = pieces THEN Len(s) ELSE nthOf(runStarts, m) - 1
    IN  [m \in 1..pieces |-> SubSeq(s, from(m), to(m))]

\* text.toLowerCase().trim().split(/\s+/)
lowerTrimSplit(s) == splitWhitespace(trim(toLowerCase(s)))

\* String.prototype.includes
includes(s, pat) ==
    \E i \in 1..(Len(s) - Len(pat) + 1) : SubSeq(s, i, i + Len(pat) - 1) = pat

\* the values null and undefined, which are not texts
null == <<"null">>

undefined == <<"undefined">>

\* the argument is absent: null or undefined, where a string is expected
isAbsent(s) == s = null \/ s = undefined

\* truthy with the empty string taken for a value like any other
truthy_always(s) == TRUE

\* JavaScript truthiness of a string, null or undefined: every string but ""
\* is truthy, null and undefined are not
truthy(s) == s # <<>> /\ ~isAbsent(s)

----------------------------------------------------------------------------
(* Numbers *)

Rat(n, d) == [n |-> n, d |-> d]

Int2Rat(i) == Rat(i, 1)

RAdd(x, y) == Rat(x.n * y.d + y.n * x.d, x.d * y.d)

RSub(x, y) == Rat(x.n * y.d - y.n * x.d, x.d * y.d)

RMul(x, y) == Rat(x.n * y.n, x.d * y.d)

\* x / k for an integer k > 0
RDivInt(x, k) == Rat(x.n, x.d * k)

RLess(x, y) == x.n * y.d < y.n * x.d

RLeq(x, y) == x.n * y.d <= y.n * x.d

REq(x, y) == x.n * y.d = y.n * x.d

\* Math.round: the nearest integer, a tie going up (floor(x + 1/2))
MathRound(x) == (2 * x.n + x.d) \div (2 * x.d)

MathMax(a, b) == IF a >= b THEN a ELSE b

MathMin(a, b) == IF a <= b THEN a ELSE b

MathAbs(a) == IF a < 0 THEN 0 - a ELSE a

Min3(a, b, c) == MathMin(a, MathMin(b, c))

----------------------------------------------------------------------------
(* phonemeUtils.ts: word similarity *)

\* the matrix without the substitution: a character is only ever deleted
\* or inserted
RECURSIVE matrixCell_noSubstitution(_, _, _, _)
matrixCell_noSubstitution(str1, str2, i, j) ==
    IF i = 0 THEN j
    ELSE IF j = 0 THEN i
    ELSE IF str2[i] = str1[j]
         THEN matrixCell_noSubstitution(str1, str2, i - 1, j - 1)
         ELSE MathMin(matrixCell_noSubstitution(str1, str2, i, j - 1) + 1,
                      matrixCell_noSubstitution(str1, str2, i - 1, j) + 1)

\* matrix[i][j] of levenshteinDistance: i counts characters of str2, j of str1
RECURSIVE matrixCell(_, _, _, _)
matrixCell(str1, str2, i, j) ==
    IF i = 0 THEN j
    ELSE IF j = 0 THEN i
    ELSE IF str2[i] = str1[j]
         THEN matrixCell(str1, str2, i - 1, j - 1)
         ELSE Min3(matrixCell(str1, str2, i - 1, j - 1) + 1,
                   matrixCell(str1, str2, i, j - 1) + 1,
                   matrixCell(str1, str2, i - 1, j) + 1)

levenshteinDistance(str1, str2) == matrixCell(str1, str2, Len(str2), Len(str1))

calculateStringSimilarity(str1, str2) ==
    LET longer  == IF Len(str1) > Len(str2) THEN str1 ELSE str2
        shorter == IF Len(str1) > Len(str2) THEN str2 ELSE str1
    IN  IF Len(longer) = 0 THEN Int2Rat(1)
        ELSE Rat(Len(longer) - levenshteinDistance(longer, shorter), Len(longer))

----------------------------------------------------------------------------
(* phonemeUtils.ts: comparePhonemes *)

\* the loop giving credit to similar words only, none to equal ones
RECURSIVE matchesLoop_exactUncounted(_, _, _, _)
matchesLoop_exactUncounted(userWords, targetWords, i, matches) ==
    IF i > MathMin(Len(userWords), Len(targetWords)) THEN matches
    ELSE IF userWords[i] = targetWords[i]
         THEN matchesLoop_exactUncounted(userWords, targetWords, i + 1, matches)
         ELSE matchesLoop_exactUncounted(userWords, targetWords, i + 1,
                  RAdd(matches, calculateStringSimilarity(userWords[i], targetWords[i])))

\* the for loop of comparePhonemes from index i (1-based) on
RECURSIVE matchesLoop(_, _, _, _)
matchesLoop(userWords, targetWords, i, matches) ==
    IF i > MathMin(Len(userWords), Len(targetWords)) THEN matches
    ELSE IF userWords[i] = targetWords[i]
         THEN matchesLoop(userWords, targetWords, i + 1, RAdd(matches, Int2Rat(1)))
         ELSE matchesLoop(userWords, targetWords, i + 1,
                  RAdd(matches, calculateStringSimilarity(userWords[i], targetWords[i])))

comparePhonemes(u, t) ==
    IF ~truthy(u) \/ ~truthy(t) THEN 0
    ELSE LET userWords   == lowerTrimSplit(u)
             targetWords == lowerTrimSplit(t)
             maxLength   == MathMax(Len(userWords), Len(targetWords))
             matches     == matchesLoop(userWords, targetWords, 1, Int2Rat(0))
         IN  MathRound(RMul(RDivInt(matches, maxLength), Int2Rat(100)))

----------------------------------------------------------------------------
(* ComparisonAgent.ts: compareTexts *)

\* calculateLengthPenalty counting the pieces of the untrimmed texts
calculateLengthPenalty_noTrim(u, t) ==
    LET userWords        == Len(splitWhitespace(u))
        targetWords      == Len(splitWhitespace(t))
        lengthDifference == MathAbs(userWords - targetWords)
        maxWords         == MathMax(userWords, targetWords)
    IN  IF maxWords = 0 THEN Int2Rat(0)
        ELSE RMul(Rat(lengthDifference, maxWords), Int2Rat(30))

calculateLengthPenalty(u, t) ==
    LET userWords        == Len(splitWhitespace(trim(u)))
        targetWords      == Len(splitWhitespace(trim(t)))
        lengthDifference == MathAbs(userWords - targetWords)
        maxWords         == MathMax(userWords, targetWords)
    IN  IF maxWords = 0 THEN Int2Rat(0)
        ELSE RMul(Rat(lengthDifference, maxWords), Int2Rat(30))

\* the loop of calculateWordOrderBonus without the reset at a mismatch
RECURSIVE consecutiveLoop_noReset(_, _, _, _, _)
consecutiveLoop_noReset(userWords, targetWords, i, consecutiveMatches, maxConsecutive) ==
    IF i > MathMin(Len(userWords), Len(targetWords)) THEN maxConsecutive
    ELSE IF userWords[i] = targetWords[i]
         THEN consecutiveLoop_noReset(userWords, targetWords, i + 1,
                                      consecutiveMatches + 1,
                                      MathMax(maxConsecutive, consecutiveMatches + 1))
         ELSE consecutiveLoop_noReset(userWords, targetWords, i + 1,
                                      consecutiveMatches, maxConsecutive)

\* the for loop of calculateWordOrderBonus from index i (1-based) on
RECURSIVE consecutiveLoop(_, _, _, _, _)
consecutiveLoop(userWords, targetWords, i, consecutiveMatches, maxConsecutive) ==
    IF i > MathMin(Len(userWords), Len(targetWords)) THEN maxConsecutive
    ELSE IF userWords[i] = targetWords[i]
         THEN consecutiveLoop(userWords, targetWords, i + 1, consecutiveMatches + 1,
                              MathMax(maxConsecutive, consecutiveMatches + 1))
         ELSE consecutiveLoop(userWords, targetWords, i + 1, 0, maxConsecutive)

calculateWordOrderBonus(u, t) ==
    LET userWords      == lowerTrimSplit(u)
        targetWords    == lowerTrimSplit(t)
        maxConsecutive == consecutiveLoop(userWords, targetWords, 1, 0, 0)
    IN  RMul(Rat(maxConsecutive, Len(targetWords)), Int2Rat(20))

\* the clamp without its lower limit
clampRound_noLowerLimit(finalScore) == MathMin(100, MathRound(finalScore))

\* Math.max(0, Math.min(100, Math.round(finalScore)))
clampRound(finalScore) == MathMax(0, MathMin(100, MathRound(finalScore)))

\* compareTexts without the weights 0.7, 0.2 and 0.1
compareTexts_unweighted(u, t) ==
    IF ~truthy(u) \/ ~truthy(t) THEN 0
    ELSE clampRound(RSub(RAdd(Int2Rat(comparePhonemes(u, t)),
                              calculateWordOrderBonus(u, t)),
                         calculateLengthPenalty(u, t)))

compareTexts(u, t) ==
    IF ~truthy(u) \/ ~truthy(t) THEN 0
    ELSE LET phonemeScore   == comparePhonemes(u, t)
             lengthPenalty  == calculateLengthPenalty(u, t)
             wordOrderBonus == calculateWordOrderBonus(u, t)
             finalScore     == RSub(RAdd(RMul(Int2Rat(phonemeScore), Rat(7, 10)),
                                         RMul(wordOrderBonus, Rat(2, 10))),
                                    RMul(lengthPenalty, Rat(1, 10)))
         IN  clampRound(finalScore)

----------------------------------------------------------------------------
(* ComparisonAgent.ts: analyzeErrors *)

\* the value of "i < words.length ? words[i] : null"; null is no word
wordAt(words, i) == IF i <= Len(words) THEN words[i] ELSE null

\* a test for null in place of the truthiness test
truthyWord_nullOnly(w) == w # null

\* truthiness of a string-or-null value: null and "" are falsy
truthyWord(w) == w # null /\ w # <<>>

emptyReport == [missedWords |-> <<>>, addedWords |-> <<>>, substitutions |-> <<>>]

\* the for loop without its third branch: no substitution is reported
RECURSIVE errorLoop_noSubstitutions(_, _, _, _)
errorLoop_noSubstitutions(userWords, targetWords, i, acc) ==
    IF i > MathMax(Len(userWords), Len(targetWords)) THEN acc
    ELSE LET userWord   == wordAt(userWords, i)
             targetWord == wordAt(targetWords, i)
         IN  IF truthyWord(targetWord) /\ ~truthyWord(userWord)
             THEN errorLoop_noSubstitutions(userWords, targetWords, i + 1,
                      [acc EXCEPT !.missedWords = Append(@, targetWord)])
             ELSE IF truthyWord(userWord) /\ ~truthyWord(targetWord)
             THEN errorLoop_noSubstitutions(userWords, targetWords, i + 1,
                      [acc EXCEPT !.addedWords = Append(@, userWord)])
             ELSE errorLoop_noSubstitutions(userWords, targetWords, i + 1, acc)

\* the for loop of analyzeErrors from index i (1-based) on
RECURSIVE errorLoop(_, _, _, _)
errorLoop(userWords, targetWords, i, acc) ==
    IF i > MathMax(Len(userWords), Len(targetWords)) THEN acc
    ELSE LET userWord   == wordAt(userWords, i)
             targetWord == wordAt(targetWords, i)
         IN  IF truthyWord(targetWord) /\ ~truthyWord(userWord)
             THEN errorLoop(userWords, targetWords, i + 1,
                      [acc EXCEPT !.missedWords = Append(@, targetWord)])
             ELSE IF truthyWord(userWord) /\ ~truthyWord(targetWord)
             THEN errorLoop(userWords, targetWords, i + 1,
                      [acc EXCEPT !.addedWords = Append(@, userWord)])
             ELSE IF truthyWord(userWord) /\ truthyWord(targetWord)
                     /\ userWord # targetWord
             THEN errorLoop(userWords, targetWords, i + 1,
                      [acc EXCEPT !.substitutions =
                          Append(@, [original |-> targetWord, spoken |-> userWord])])
             ELSE errorLoop(userWords, targetWords, i + 1, acc)

analyzeErrors(u, t) ==
    errorLoop(lowerTrimSplit(u), lowerTrimSplit(t), 1, emptyReport)

----------------------------------------------------------------------------
(* The comparison calls as a state machine: the caller holds two texts,    *)
(* applies one of the three functions to them, and may then re-submit a    *)
(* variant of a text (other letter case, one more whitespace character),   *)
(* on which the same function is applied again.                            *)

CompareOps == {"compareTexts", "comparePhonemes", "analyzeErrors"}

\* the score and the report a call of function o leaves
scoreOf(o, u, t) ==
    IF o = "compareTexts" THEN compareTexts(u, t)
    ELSE IF o = "comparePhonemes" THEN comparePhonemes(u, t)
    ELSE 0

reportOf(o, u, t) == IF o = "analyzeErrors" THEN analyzeErrors(u, t) ELSE emptyReport

\* no comparison in progress
CompareIdle ==
    /\ userText = <<>>
    /\ targetText = <<>>
    /\ op = "none"
    /\ score = 0
    /\ report = emptyReport

CompareInit ==
    /\ userText \in Texts
    /\ targetText \in Texts
    /\ op = "none"
    /\ score = 0
    /\ report = emptyReport

CallCompareTexts ==
    /\ op = "none"
    /\ op' = "compareTexts"
    /\ score' = compareTexts(userText, targetText)
    /\ UNCHANGED <<userText, targetText, report>>
    /\ UNCHANGED notCompareVars

CallComparePhonemes ==
    /\ op = "none"
    /\ op' = "comparePhonemes"
    /\ score' = comparePhonemes(userText, targetText)
    /\ UNCHANGED <<userText, targetText, report>>
    /\ UNCHANGED notCompareVars

CallAnalyzeErrors ==
    /\ op = "none"
    /\ op' = "analyzeErrors"
    /\ report' = analyzeErrors(userText, targetText)
    /\ UNCHANGED <<userText, targetText, score>>
    /\ UNCHANGED notCompareVars

\* s with the character at position i replaced by c
replaceAt(s, i, c) == [s EXCEPT ![i] = c]

\* s with character c inserted before position i (i = Len(s) + 1 appends)
insertAt(s, i, c) == SubSeq(s, 1, i - 1) \o <<c>> \o SubSeq(s, i, Len(s))

\* the variants of s that differ in the case of one letter (of the texts of
\* at most MaxLen characters, to keep the set of texts finite and small)
caseVariants(s) ==
    IF Len(s) > MaxLen THEN {}
    ELSE {replaceAt(s, i, lowerChar(s[i])) : i \in 1..Len(s)} \cup
         {replaceAt(s, i, upperChar(s[i])) : i \in 1..Len(s)}

\* the variants of s with one more leading or trailing whitespace character,
\* or with one run of whitespace longer by one
whitespaceVariants(s) ==
    IF Len(s) >= MaxLen THEN {}
    ELSE {insertAt(s, 1, w) : w \in Whitespace} \cup
         {insertAt(s, Len(s) + 1, w) : w \in Whitespace} \cup
         {insertAt(s, i, w) : i \in {j \in 1..Len(s) : s[j] \in Whitespace},
                              w \in Whitespace}

\* the same function applied again to the new texts
Resubmit(u, t) ==
    /\ op \in CompareOps
    /\ userText' = u
    /\ targetText' = t
    /\ score' = scoreOf(op, u, t)
    /\ report' = reportOf(op, u, t)
    /\ UNCHANGED op
    /\ UNCHANGED notCompareVars

ChangeUserCase ==
    \E u \in caseVariants(userText) \ {userText} : Resubmit(u, targetText)

ChangeTargetCase ==
    \E t \in caseVariants(targetText) \ {targetText} : Resubmit(userText, t)

AddUserWhitespace ==
    \E u \in whitespaceVariants(userText) : Resubmit(u, targetText)

AddTargetWhitespace ==
    \E t \in whitespaceVariants(targetText) : Resubmit(userText, t)

CompareNext ==
    \/ CallCompareTexts
    \/ CallComparePhonemes
    \/ CallAnalyzeErrors
    \/ ChangeUserCase
    \/ ChangeTargetCase
    \/ AddUserWhitespace
    \/ AddTargetWhitespace

----------------------------------------------------------------------------
(* phonemeUtils.ts: getLetterGrade, on a rational score *)

\* getLetterGrade with > in place of >=
getLetterGrade_strict(x) ==
    IF RLess(Int2Rat(97), x) THEN "A+"
    ELSE IF RLess(Int2Rat(93), x) THEN "A"
    ELSE IF RLess(Int2Rat(90), x) THEN "A-"
    ELSE IF RLess(Int2Rat(87), x) THEN "B+"
    ELSE IF RLess(Int2Rat(83), x) THEN "B"
    ELSE IF RLess(Int2Rat(80), x) THEN "B-"
    ELSE IF RLess(Int2Rat(77), x) THEN "C+"
    ELSE IF RLess(Int2Rat(73), x) THEN "C"
    ELSE IF RLess(Int2Rat(70), x) THEN "C-"
    ELSE IF RLess(Int2Rat(67), x) THEN "D+"
    ELSE IF RLess(Int2Rat(65), x) THEN "D"
    ELSE "F"

getLetterGrade(x) ==
    IF RLeq(Int2Rat(97), x) THEN "A+"
    ELSE IF RLeq(Int2Rat(93), x) THEN "A"
    ELSE IF RLeq(Int2Rat(90), x) THEN "A-"
    ELSE IF RLeq(Int2Rat(87), x) THEN "B+"
    ELSE IF RLeq(Int2Rat(83), x) THEN "B"
    ELSE IF RLeq(Int2Rat(80), x) THEN "B-"
    ELSE IF RLeq(Int2Rat(77), x) THEN "C+"
    ELSE IF RLeq(Int2Rat(73), x) THEN "C"
    ELSE IF RLeq(Int2Rat(70), x) THEN "C-"
    ELSE IF RLeq(Int2Rat(67), x) THEN "D+"
    ELSE IF RLeq(Int2Rat(65), x) THEN "D"
    ELSE "F"

\* the scores handed to getLetterGrade: every multiple of 1/GradeResolution
\* from GradeOvershoot below 0 to GradeOvershoot above 100
GradeScores ==
    {Rat(n, GradeResolution) :
        n \in (0 - GradeOvershoot * GradeResolution) ..
              ((100 + GradeOvershoot) * GradeResolution)}

GradeIdle ==
    /\ gradeScore = Int2Rat(0)
    /\ grade = "none"

GradeInit ==
    /\ gradeScore \in GradeScores
    /\ grade = "none"

CallGetLetterGrade ==
    /\ grade = "none"
    /\ grade' = getLetterGrade(gradeScore)
    /\ UNCHANGED gradeScore
    /\ UNCHANGED notGradeVars

\* the caller asks for the grade of the next higher score
RegradeHigher ==
    /\ grade # "none"
    /\ \E x \in GradeScores :
          /\ x.n = gradeScore.n + 1
          /\ gradeScore' = x
          /\ grade' = getLetterGrade(x)
    /\ UNCHANGED notGradeVars

GradeNext ==
    \/ CallGetLetterGrade
    \/ RegradeHigher

----------------------------------------------------------------------------
(* phonemeUtils.ts: generatePronunciationFeedback *)

\* a feedback string: its fixed text, the sounds put into it and the text
\* after them (the strings are given without their emoji)
Msg(text) == [text |-> text, sounds |-> <<>>, tail |-> ""]

\* `Practice the "${sound}" sound: ${pattern.tip}`
PracticeTip(sound, tip) ==
    [text |-> "Practice the sound: ", sounds |-> <<sound>>, tail |-> tip]

\* `Focus on these sounds: ${soundIssues.join(', ')}`
SoundsMsg(issues) ==
    [text |-> "Focus on these sounds: ", sounds |-> issues, tail |-> ""]

\* PRONUNCIATION_PATTERNS in the order of Object.entries
PRONUNCIATION_PATTERNS == <<
    [sound |-> <<"t", "h">>, tip |-> "Place tongue between teeth and blow air gently"],
    [sound |-> <<"r">>, tip |-> "Curl tongue tip back without touching the roof of mouth"],
    [sound |-> <<"l">>, tip |-> "Touch tongue tip to roof of mouth behind front teeth"],
    [sound |-> <<"v">>, tip |-> "Bite lower lip gently and vibrate vocal cords"],
    [sound |-> <<"w">>, tip |-> "Round lips and blow air out gently"] >>

\* the first push of generatePronunciationFeedback
scoreTierMessage(sc) ==
    IF sc >= 90
    THEN Msg("Excellent pronunciation! Your speech is very clear and accurate.")
    ELSE IF sc >= 80
    THEN Msg("Great job! Your pronunciation is good with minor areas for improvement.")
    ELSE IF sc >= 70
    THEN Msg("Good effort! There are some pronunciation patterns to work on.")
    ELSE IF sc >= 60
    THEN Msg("Keep practicing! Focus on speaking more slowly and clearly.")
    ELSE Msg("Don't worry - pronunciation takes time to improve. Try speaking more slowly.")

\* the forEach over PRONUNCIATION_PATTERNS with the user and target swapped
RECURSIVE patternLoop_swapped(_, _, _, _)
patternLoop_swapped(userLower, targetLower, i, acc) ==
    IF i > Len(PRONUNCIATION_PATTERNS) THEN acc
    ELSE LET sound == PRONUNCIATION_PATTERNS[i].sound
             targetHasSound == includes(userLower, sound)
             userHasSound   == includes(targetLower, sound)
         IN  patternLoop_swapped(userLower, targetLower, i + 1,
                 IF targetHasSound /\ ~userHasSound
                 THEN Append(acc, PracticeTip(sound, PRONUNCIATION_PATTERNS[i].tip))
                 ELSE acc)

\* the forEach over PRONUNCIATION_PATTERNS from entry i on
RECURSIVE patternLoop(_, _, _, _)
patternLoop(userLower, targetLower, i, acc) ==
    IF i > Len(PRONUNCIATION_PATTERNS) THEN acc
    ELSE LET sound == PRONUNCIATION_PATTERNS[i].sound
             targetHasSound == includes(targetLower, sound)
             userHasSound   == includes(userLower, sound)
         IN  patternLoop(userLower, targetLower, i + 1,
                 IF targetHasSound /\ ~userHasSound
                 THEN Append(acc, PracticeTip(sound, PRONUNCIATION_PATTERNS[i].tip))
                 ELSE acc)

generalTips ==
    << Msg("Tip: Try reading more slowly and enunciating each word clearly."),
       Msg("Focus on moving your mouth and tongue deliberately for each sound.") >>

generatePronunciationFeedback(u, t, sc) ==
    LET first == <<scoreTierMessage(sc)>>
        withTips == patternLoop(toLowerCase(u), toLowerCase(t), 1, first)
    IN  IF sc < 80 THEN withTips \o generalTips ELSE withTips

----------------------------------------------------------------------------
(* FeedbackAgent.ts: generateFeedback *)

generatePerformanceFeedback(sc) ==
    IF sc >= 95
    THEN << Msg("Outstanding! You have excellent pronunciation clarity."),
            Msg("Consider trying more challenging texts to further improve.") >>
    ELSE IF sc >= 85
    THEN << Msg("Great work! Your pronunciation is very good."),
            Msg("Focus on maintaining this level of clarity consistently.") >>
    ELSE IF sc >= 75
    THEN << Msg("Good job! You're making solid progress."),
            Msg("Try practicing with longer sentences to build fluency.") >>
    ELSE IF sc >= 65
    THEN << Msg("Keep improving! You're on the right track."),
            Msg("Practice reading aloud daily to build muscle memory.") >>
    ELSE IF sc >= 50
    THEN << Msg("Don't give up! Pronunciation skills take time to develop."),
            Msg("Focus on speaking slowly and clearly at first.") >>
    ELSE << Msg("Every expert was once a beginner. Keep practicing!"),
            Msg("Try breaking down difficult words into smaller parts.") >>

\* correctOrder / targetWords.length as a rational
checkWordOrder(userWords, targetWords) ==
    LET minLength == MathMin(Len(userWords), Len(targetWords))
        correctOrder == Cardinality({i \in 1..minLength : userWords[i] = targetWords[i]})
    IN  IF Len(targetWords) > 0 THEN Rat(correctOrder, Len(targetWords))
        ELSE Int2Rat(0)

soundChecks == <<
    [target |-> <<"t", "h">>, user |-> <<"d">>, sound |-> <<"t", "h">>],
    [target |-> <<"t", "h">>, user |-> <<"f">>, sound |-> <<"t", "h">>],
    [target |-> <<"r">>, user |-> <<"w">>, sound |-> <<"r">>],
    [target |-> <<"l">>, user |-> <<"r">>, sound |-> <<"l">>],
    [target |-> <<"v">>, user |-> <<"b">>, sound |-> <<"v">>],
    [target |-> <<"w">>, user |-> <<"v">>, sound |-> <<"w">>] >>

\* Array.prototype.includes on a list of sounds
listIncludes(list, x) == \E k \in 1..Len(list) : list[k] = x

\* the forEach over soundChecks from entry i on
RECURSIVE soundCheckLoop(_, _, _, _)
soundCheckLoop(userLower, targetLower, i, issues) ==
    IF i > Len(soundChecks) THEN issues
    ELSE LET check == soundChecks[i]
         IN  soundCheckLoop(userLower, targetLower, i + 1,
                 IF /\ includes(targetLower, check.target)
                    /\ includes(userLower, check.user)
                    /\ ~listIncludes(issues, check.sound)
                 THEN Append(issues, check.sound)
                 ELSE issues)

detectSoundIssues(u, t) == soundCheckLoop(toLowerCase(u), toLowerCase(t), 1, <<>>)

generateTechnicalFeedback(u, t) ==
    LET userWords   == lowerTrimSplit(u)
        targetWords == lowerTrimSplit(t)
        tooFew  == IF 10 * Len(userWords) < 7 * Len(targetWords)
                   THEN <<Msg("Try to speak all the words in the text. Take your time!")>>
                   ELSE <<>>
        tooMany == IF 10 * Len(userWords) > 13 * Len(targetWords)
                   THEN <<Msg("Focus on speaking just the words shown. Avoid adding extra words.")>>
                   ELSE <<>>
        order   == IF RLess(checkWordOrder(userWords, targetWords), Rat(8, 10))
                   THEN <<Msg("Pay attention to the word order in the text.")>>
                   ELSE <<>>
        soundIssues == detectSoundIssues(u, t)
        sounds  == IF Len(soundIssues) > 0 THEN <<SoundsMsg(soundIssues)>> ELSE <<>>
    IN  tooFew \o tooMany \o order \o sounds

generateFeedback(u, t, sc) ==
    generatePronunciationFeedback(u, t, sc)
        \o generatePerformanceFeedback(sc)
        \o generateTechnicalFeedback(u, t)

\* the characters of the feedback texts: the letters of the sound patterns,
\* a capital, whitespace
FeedbackChars == {"t", "h", "r", "l", "v", "w", "T"} \cup Whitespace

\* three longer texts: every pattern, a part of them, none of them (and a
\* sound that "th" is mistaken for)
FeedbackPhrases == {
    <<"t", "h", " ", "r", " ", "l", " ", "v", " ", "w">>,
    <<"T", "h", " ", "l", " ", "w">>,
    <<"d", " ", "d", " ", "d", " ", "d">> }

FeedbackTexts ==
    UNION {[1..k -> FeedbackChars] : k \in 0..MaxFeedbackLen} \cup FeedbackPhrases

\* the scores: the multiples of ScoreStep up to MaxScoreSteps of them
FeedbackScores == {k * ScoreStep : k \in 0..MaxScoreSteps}

FeedbackIdle ==
    /\ fbUserText = <<>>
    /\ fbTargetText = <<>>
    /\ fbScore = 0
    /\ fbOp = "none"
    /\ feedback = <<>>

FeedbackInit ==
    /\ fbUserText \in FeedbackTexts
    /\ fbTargetText \in FeedbackTexts
    /\ fbScore \in FeedbackScores
    /\ fbOp = "none"
    /\ feedback = <<>>

CallGenerateFeedback ==
    /\ fbOp = "none"
    /\ fbOp' = "generateFeedback"
    /\ feedback' = generateFeedback(fbUserText, fbTargetText, fbScore)
    /\ UNCHANGED <<fbUserText, fbTargetText, fbScore>>
    /\ UNCHANGED notFeedbackVars

CallGeneratePronunciationFeedback ==
    /\ fbOp = "none"
    /\ fbOp' = "generatePronunciationFeedback"
    /\ feedback' = generatePronunciationFeedback(fbUserText, fbTargetText, fbScore)
    /\ UNCHANGED <<fbUserText, fbTargetText, fbScore>>
    /\ UNCHANGED notFeedbackVars

FeedbackNext ==
    \/ CallGenerateFeedback
    \/ CallGeneratePronunciationFeedback

----------------------------------------------------------------------------
(* FeedbackAgent.ts: generateMotivationalMessage *)

\* slice(-3) left out: the whole list is summed
sliceLast_all(list, n) == list

\* Array.prototype.slice(-n): the last n elements, all of them if fewer
sliceLast(list, n) == SubSeq(list, MathMax(1, Len(list) - n + 1), Len(list))

\* Array.prototype.reduce((sum, score) => sum + score, 0)
RECURSIVE sumOf(_)
sumOf(list) == IF list = <<>> THEN 0 ELSE Head(list) + sumOf(Tail(list))

generateMotivationalMessage(cur, prev) ==
    IF Len(prev) = 0
    THEN "Welcome to pronunciation practice! Let's start building your speaking confidence!"
    ELSE LET recentAverage == Rat(sumOf(sliceLast(prev, 3)), MathMin(3, Len(prev)))
             improvement   == RSub(Int2Rat(cur), recentAverage)
         IN  IF RLess(Int2Rat(10), improvement)
             THEN "Amazing improvement! You're really getting the hang of this!"
             ELSE IF RLess(Int2Rat(5), improvement)
             THEN "Great progress! Keep up the excellent work!"
             ELSE IF RLess(Int2Rat(0), improvement)
             THEN "Nice job! You're steadily improving!"
             ELSE IF RLess(Int2Rat(0 - 5), improvement)
             THEN "Stay consistent! Small daily practice leads to big improvements!"
             ELSE "Don't worry about one session. Focus on the long-term progress!"

\* the scores of the sessions: the multiples of ScoreStep up to MaxSessionSteps
SessionScores == {k * ScoreStep : k \in 0..MaxSessionSteps}

MotivationIdle ==
    /\ currentScore = 0
    /\ previousScores = <<>>
    /\ message = "none"

MotivationInit ==
    /\ currentScore \in SessionScores
    /\ previousScores \in UNION {[1..k -> SessionScores] : k \in 0..MaxPrevious}
    /\ message = "none"

CallGenerateMotivationalMessage ==
    /\ message = "none"
    /\ message' = generateMotivationalMessage(currentScore, previousScores)
    /\ UNCHANGED <<currentScore, previousScores>>
    /\ UNCHANGED notMotivationVars

\* the caller asks again after one more session: the current score joins the
\* previous scores and a new current score comes in
NextSession ==
    /\ message # "none"
    /\ Len(previousScores) < MaxPrevious
    /\ \E s \in SessionScores :
          /\ previousScores' = Append(previousScores, currentScore)
          /\ currentScore' = s
          /\ message' = generateMotivationalMessage(s, Append(previousScores, currentScore))
    /\ UNCHANGED notMotivationVars

MotivationNext ==
    \/ CallGenerateMotivationalMessage
    \/ NextSession

----------------------------------------------------------------------------
(* phrases.ts: analyzeDifficulty *)

\* \w of a regular expression, for the characters in use: the letters
isWordChar(c) == c \notin Whitespace

\* phrase.replace(/\s+/g, '').length
nonWhitespaceLength(phrase) == Cardinality({i \in 1..Len(phrase) : phrase[i] \notin Whitespace})

\* the substrings of /th|sh|ch|ng|qu|ck|ph/
ComplexSounds == {<<"t", "h">>, <<"s", "h">>, <<"c", "h">>, <<"n", "g">>,
                  <<"q", "u">>, <<"c", "k">>, <<"p", "h">>}

\* s[from..to] matches \w*\s+\w*: it holds one run of whitespace, and word
\* characters otherwise
matchesWordGapWord(s, from, to) ==
    /\ Cardinality({k \in from..to :
            s[k] \in Whitespace /\ (k = from \/ s[k - 1] \notin Whitespace)}) = 1
    /\ \A k \in from..to : s[k] \in Whitespace \/ isWordChar(s[k])

\* s.match(/(\w)\w*\s+\w*\1/g) is not null
matchesTongueTwister(s) ==
    \E i \in 1..Len(s) : \E j \in (i + 1)..Len(s) :
        /\ isWordChar(s[i])
        /\ s[j] = s[i]
        /\ matchesWordGapWord(s, i + 1, j - 1)

analyzeDifficulty(phrase) ==
    LET wordCount        == Len(splitWhitespace(phrase))
        avgWordLength    == Rat(nonWhitespaceLength(phrase), wordCount)
        hasComplexSounds == \E pat \in ComplexSounds : includes(toLowerCase(phrase), pat)
        hasTongueTwister == matchesTongueTwister(toLowerCase(phrase))
    IN  IF wordCount > 15 \/ RLess(Int2Rat(6), avgWordLength) \/ hasTongueTwister
        THEN "advanced"
        ELSE IF wordCount > 10 \/ RLess(Int2Rat(5), avgWordLength) \/ hasComplexSounds
             THEN "intermediate"
             ELSE "basic"

----------------------------------------------------------------------------
(* ComparisonAgent.ts: calculateDifficulty *)

\* [bcdfghjklmnpqrstvwxyz] with the flag i
Consonants == {"b", "c", "d", "f", "g", "h", "j", "k", "l", "m", "n", "p", "q",
               "r", "s", "t", "v", "w", "x", "y", "z"}

isConsonant(c) == lowerChar(c) \in Consonants

\* text.match(/[bcdfghjklmnpqrstvwxyz]{3,}/gi): a match takes a whole run of
\* consonants, so the matches are the runs of three or more
countConsonantClusters(text) ==
    Cardinality({i \in 1..(Len(text) - 2) :
        /\ i = 1 \/ ~isConsonant(text[i - 1])
        /\ isConsonant(text[i])
        /\ isConsonant(text[i + 1])
        /\ isConsonant(text[i + 2])})

\* s.match(new RegExp(pattern, 'g')).length: the matches found from position
\* i on, each search resuming behind the previous match
RECURSIVE countMatches(_, _, _)
countMatches(s, pattern, i) ==
    IF i + Len(pattern) - 1 > Len(s) THEN 0
    ELSE IF SubSeq(s, i, i + Len(pattern) - 1) = pattern
         THEN 1 + countMatches(s, pattern, i + Len(pattern))
         ELSE countMatches(s, pattern, i + 1)

uncommonPatterns == << <<"t", "h">>, <<"z", "h">>, <<"n", "g">>,
                       <<"t", "i", "o", "n">>, <<"s", "i", "o", "n">> >>

\* the forEach of countUncommonSounds from pattern k on
RECURSIVE uncommonLoop(_, _, _)
uncommonLoop(text, k, count) ==
    IF k > Len(uncommonPatterns) THEN count
    ELSE uncommonLoop(text, k + 1,
                      count + countMatches(toLowerCase(text), uncommonPatterns[k], 1))

countUncommonSounds(text) == uncommonLoop(text, 1, 0)

\* startingSounds[c] after the forEach over the words
startingCount(words, c) ==
    Cardinality({k \in 1..Len(words) : Len(words[k]) > 0 /\ words[k][1] = c})

detectTongueTwisters(text) ==
    LET words == splitWhitespace(toLowerCase(text))
        first == {words[k][1] : k \in {j \in 1..Len(words) : Len(words[j]) > 0}}
        bonus(c) == IF startingCount(words, c) >= 3 THEN startingCount(words, c) - 2 ELSE 0
        RECURSIVE total(_)
        total(S) == IF S = {} THEN 0
                    ELSE LET c == CHOOSE x \in S : TRUE IN bonus(c) + total(S \ {c})
    IN  total(first)

\* calculateDifficulty without the normalisation to the scale 1..10
calculateDifficulty_unclamped(text) ==
    LET words           == splitWhitespace(toLowerCase(text))
        longWords       == Cardinality({k \in 1..Len(words) : Len(words[k]) > 7}) * 2
        difficultyScore == longWords + countConsonantClusters(text)
                           + countUncommonSounds(text) + detectTongueTwisters(text)
    IN  MathRound(Rat(difficultyScore * 5, Len(words)))

calculateDifficulty(text) ==
    LET words           == splitWhitespace(toLowerCase(text))
        longWords       == Cardinality({k \in 1..Len(words) : Len(words[k]) > 7}) * 2
        difficultyScore == longWords + countConsonantClusters(text)
                           + countUncommonSounds(text) + detectTongueTwisters(text)
    IN  MathMin(10, MathMax(1, MathRound(Rat(difficultyScore * 5, Len(words)))))

----------------------------------------------------------------------------
(* The difficulty calls as a state machine: the caller holds a phrase and   *)
(* applies one of the two functions to it.                                  *)

\* the characters of the arbitrary phrases: a vowel, two consonants that
\* make the sound "th", whitespace
DifficultyChars == {"a", "t", "h"} \cup Whitespace

\* every phrase of at most MaxDifficultyLen characters
RawPhrases == UNION {[1..k -> DifficultyChars] : k \in 0..MaxDifficultyLen}

\* the word made of n times the character c
repeatChar(c, n) == [i \in 1..n |-> c]

\* the short words of the longer phrases
ShortWords == {<<"a">>, <<"t">>, <<"T", "h">>, <<"h", "a">>, <<"t", "a">>}

\* the long words: up to MaxWordLen times the same letter
LongWords == {repeatChar("a", n) : n \in 5..MaxWordLen}

\* the phrase of n words that are in turn w1 and w2
alternate(w1, w2, n) == joinWords([k \in 1..n |-> IF k % 2 = 1 THEN w1 ELSE w2])

\* up to MaxPhraseWords short words, or up to MaxWords words one of which
\* is long
LongPhrases ==
    {alternate(w1, w2, n) : w1 \in ShortWords, w2 \in ShortWords,
                            n \in 1..MaxPhraseWords} \cup
    {alternate(w1, w2, n) : w1 \in LongWords, w2 \in ShortWords \cup LongWords,
                            n \in 1..MaxWords}

DifficultyTexts == RawPhrases \cup LongPhrases

DifficultyIdle ==
    /\ dfText = <<>>
    /\ dfOp = "none"
    /\ dfTier = "none"
    /\ dfRating = 0

DifficultyInit ==
    /\ dfText \in DifficultyTexts
    /\ dfOp = "none"
    /\ dfTier = "none"
    /\ dfRating = 0

CallAnalyzeDifficulty ==
    /\ dfOp = "none"
    /\ dfOp' = "analyzeDifficulty"
    /\ dfTier' = analyzeDifficulty(dfText)
    /\ UNCHANGED <<dfText, dfRating>>
    /\ UNCHANGED notDifficultyVars

CallCalculateDifficulty ==
    /\ dfOp = "none"
    /\ dfOp' = "calculateDifficulty"
    /\ dfRating' = calculateDifficulty(dfText)
    /\ UNCHANGED <<dfText, dfTier>>
    /\ UNCHANGED notDifficultyVars

DifficultyNext ==
    \/ CallAnalyzeDifficulty
    \/ CallCalculateDifficulty

----------------------------------------------------------------------------
(* The similarity calls as a state machine: the caller holds two words and  *)
(* applies one of the two functions to them.                                *)

\* the characters of the words
WordChars == {"a", "b"}

\* every word of at most MaxSimLen characters, the empty word included
SimilarityWords == UNION {[1..k -> WordChars] : k \in 0..MaxSimLen}

SimilarityIdle ==
    /\ simStr1 = <<>>
    /\ simStr2 = <<>>
    /\ simOp = "none"
    /\ simDistance = 0
    /\ simSimilarity = Int2Rat(0)

SimilarityInit ==
    /\ simStr1 \in SimilarityWords
    /\ simStr2 \in SimilarityWords
    /\ simOp = "none"
    /\ simDistance = 0
    /\ simSimilarity = Int2Rat(0)

CallLevenshteinDistance ==
    /\ simOp = "none"
    /\ simOp' = "levenshteinDistance"
    /\ simDistance' = levenshteinDistance(simStr1, simStr2)
    /\ UNCHANGED <<simStr1, simStr2, simSimilarity>>
    /\ UNCHANGED notSimilarityVars

CallCalculateStringSimilarity ==
    /\ simOp = "none"
    /\ simOp' = "calculateStringSimilarity"
    /\ simSimilarity' = calculateStringSimilarity(simStr1, simStr2)
    /\ UNCHANGED <<simStr1, simStr2, simDistance>>
    /\ UNCHANGED notSimilarityVars

SimilarityNext ==
    \/ CallLevenshteinDistance
    \/ CallCalculateStringSimilarity

----------------------------------------------------------------------------
(* A learner's second attempt: after compareTexts the caller puts the       *)
(* target's word in the place of a word of the user text that differs from  *)
(* it, and compareTexts is applied to the new user text.                    *)

\* the words of a text as trim().split(/\s+/) gives them
rawWords(s) == splitWhitespace(trim(s))

\* the positions at which both texts have a word and the words differ
differingPositions(u, t) ==
    {i \in 1..MathMin(Len(rawWords(u)), Len(rawWords(t))) :
        /\ rawWords(u)[i] # <<>>
        /\ rawWords(t)[i] # <<>>
        /\ rawWords(u)[i] # rawWords(t)[i]}

\* the user text with its word at position i replaced by the target's
correctedText(u, t, i) == joinWords([rawWords(u) EXCEPT ![i] = rawWords(t)[i]])

CorrectUserWord ==
    /\ op = "compareTexts"
    /\ \E i \in differingPositions(userText, targetText) :
           /\ userText' = correctedText(userText, targetText, i)
           /\ score' = compareTexts(userText', targetText)
    /\ UNCHANGED <<targetText, op, report>>
    /\ UNCHANGED notCompareVars

CorrectionNext ==
    \/ CallCompareTexts
    \/ CorrectUserWord

----------------------------------------------------------------------------
(* Calls with absent arguments: the caller hands null or undefined where a  *)
(* string is expected.  A call ends by returning or by throwing.            *)

\* the texts handed over next to null and undefined
PresentTexts == {<<>>, <<" ">>} \cup Phrases

Arguments == {null, undefined} \cup PresentTexts

\* userText.toLowerCase() throws a TypeError on null and undefined
analyzeErrorsThrows(u, t) == isAbsent(u) \/ isAbsent(t)

MalformedIdle ==
    /\ mfUserText = <<>>
    /\ mfTargetText = <<>>
    /\ mfOp = "none"
    /\ mfOutcome = "none"
    /\ mfScore = 0

MalformedInit ==
    /\ mfUserText \in Arguments
    /\ mfTargetText \in Arguments
    /\ mfOp = "none"
    /\ mfOutcome = "none"
    /\ mfScore = 0

\* compareTexts returns at its guard before it touches an absent argument
CallCompareTextsWith ==
    /\ mfOp = "none"
    /\ mfOp' = "compareTexts"
    /\ mfOutcome' = "returned"
    /\ mfScore' = compareTexts(mfUserText, mfTargetText)
    /\ UNCHANGED <<mfUserText, mfTargetText>>
    /\ UNCHANGED notMalformedVars

\* comparePhonemes has the same guard
CallComparePhonemesWith ==
    /\ mfOp = "none"
    /\ mfOp' = "comparePhonemes"
    /\ mfOutcome' = "returned"
    /\ mfScore' = comparePhonemes(mfUserText, mfTargetText)
    /\ UNCHANGED <<mfUserText, mfTargetText>>
    /\ UNCHANGED notMalformedVars

\* analyzeErrors has no guard
CallAnalyzeErrorsWith ==
    /\ mfOp = "none"
    /\ mfOp' = "analyzeErrors"
    /\ mfOutcome' = IF analyzeErrorsThrows(mfUserText, mfTargetText)
                    THEN "threw" ELSE "returned"
    /\ UNCHANGED <<mfUserText, mfTargetText, mfScore>>
    /\ UNCHANGED notMalformedVars

MalformedNext ==
    \/ CallCompareTextsWith
    \/ CallComparePhonemesWith
    \/ CallAnalyzeErrorsWith

----------------------------------------------------------------------------
(* TranscriptionAgent.ts: transcribeAudio, simulateTranscription *)

\* the argument audioBlob: null, an object that is no Blob (it has no size),
\* or a Blob of size bytes
nullBlob == [kind |-> "null", size |-> 0]

invalidBlob == [kind |-> "object", size |-> 0]

Blob(size) == [kind |-> "blob", size |-> size]

\* audioBlob.size / 16000
BytesPerSecond == 16000

\* the three texts simulateTranscription returns
ShortTranscription == joinWords(<<
    <<"T", "h", "e">>,
    <<"q", "u", "i", "c", "k">>,
    <<"b", "r", "o", "w", "n">>,
    <<"f", "o", "x">>,
    <<"j", "u", "m", "p", "s", ".">>
>>)

MediumTranscription == joinWords(<<
    <<"T", "h", "e">>,
    <<"q", "u", "i", "c", "k">>,
    <<"b", "r", "o", "w", "n">>,
    <<"f", "o", "x">>,
    <<"j", "u", "m", "p", "s">>,
    <<"o", "v", "e", "r">>,
    <<"t", "h", "e">>,
    <<"l", "a", "z", "y">>,
    <<"d", "o", "g">>,
    <<"n", "e", "a", "r">>,
    <<"t", "h", "e">>,
    <<"r", "i", "v", "e", "r", ".">>
>>)

LongTranscription == joinWords(<<
    <<"T", "h", "e">>,
    <<"q", "u", "i", "c", "k">>,
    <<"b", "r", "o", "w", "n">>,
    <<"f", "o", "x">>,
    <<"j", "u", "m", "p", "s">>,
    <<"o", "v", "e", "r">>,
    <<"t", "h", "e">>,
    <<"l", "a", "z", "y">>,
    <<"d", "o", "g">>,
    <<"n", "e", "a", "r">>,
    <<"t", "h", "e">>,
    <<"p", "e", "a", "c", "e", "f", "u", "l">>,
    <<"r", "i", "v", "e", "r">>,
    <<"t", "o", "d", "a", "y", ".">>
>>)

\* reading audioBlob.size throws a TypeError when audioBlob is null
simulateTranscriptionThrows(audioBlob) == audioBlob.kind = "null"

\* without a size the duration is NaN, which is neither < 5 nor < 15
simulateTranscription(audioBlob) ==
    IF audioBlob.kind = "blob" /\ audioBlob.size < 5 * BytesPerSecond
    THEN ShortTranscription
    ELSE IF audioBlob.kind = "blob" /\ audioBlob.size < 15 * BytesPerSecond
         THEN MediumTranscription
         ELSE LongTranscription

----------------------------------------------------------------------------
(* PronCoachAgent: processRecording.  The call runs in three steps: the     *)
(* call itself up to the await, the timer of transcribeAudio, and the rest  *)
(* of processRecording once the transcription promise has resolved.         *)

\* generateFeedback rejecting every falsy target text
generateFeedbackThrows_onFalsy(t) == ~truthy(t)

\* generateFeedback throws a TypeError at targetText.toLowerCase() when the
\* target text is null or undefined (the transcription is always a string)
generateFeedbackThrows(t) == isAbsent(t)

noResult == [transcription |-> <<>>, score |-> 0, feedback |-> <<>>, letterGrade |-> "none"]

\* the object processRecording resolves with
recordingResult(transcription, t) ==
    LET sc == compareTexts(transcription, t)
    IN  [transcription |-> transcription,
         score         |-> sc,
         feedback      |-> generateFeedback(transcription, t, sc),
         letterGrade   |-> getLetterGrade(Int2Rat(sc))]

\* the blobs handed over: none, no Blob, and Blobs around the two durations
\* at which the transcription changes
AudioBlobs ==
    {nullBlob, invalidBlob} \cup
    {Blob(n) : n \in {0, 5 * BytesPerSecond - 1, 5 * BytesPerSecond,
                      15 * BytesPerSecond - 1, 15 * BytesPerSecond}}

\* the first k words of the long transcription
firstWords(k) == joinWords(SubSeq(splitWhitespace(LongTranscription), 1, k))

\* the target texts handed over: absent, empty, blank, what the
\* transcription will be, and beginnings of it
TargetTexts ==
    {null, undefined, <<>>, <<" ">>} \cup
    {ShortTranscription, MediumTranscription, LongTranscription} \cup
    {firstWords(k) : k \in 1..MaxTargetWords}

PipelineIdle ==
    /\ plAudioBlob = nullBlob
    /\ plTargetText = <<>>
    /\ plRecognition = FALSE
    /\ plPhase = "idle"
    /\ plTranscription = <<>>
    /\ plResult = noResult

PipelineInit ==
    /\ plAudioBlob \in AudioBlobs
    /\ plTargetText \in TargetTexts
    /\ plRecognition \in BOOLEAN
    /\ plPhase = "idle"
    /\ plTranscription = <<>>
    /\ plResult = noResult

\* processRecording up to the await of transcribeAudio: without speech
\* recognition the promise is rejected at once and the catch block rethrows;
\* otherwise the timer is set
StartProcessRecording ==
    /\ plPhase = "idle"
    /\ plPhase' = IF plRecognition THEN "transcribing" ELSE "rejected"
    /\ UNCHANGED <<plAudioBlob, plTargetText, plRecognition, plTranscription, plResult>>
    /\ UNCHANGED notPipelineVars

\* the callback of setTimeout: it resolves the promise with the transcription,
\* or throws inside the callback, which leaves the promise pending with
\* nothing left to settle it
TimerFires ==
    /\ plPhase = "transcribing"
    /\ IF simulateTranscriptionThrows(plAudioBlob)
       THEN /\ plPhase' = "stalled"
            /\ UNCHANGED plTranscription
       ELSE /\ plPhase' = "transcribed"
            /\ plTranscription' = simulateTranscription(plAudioBlob)
    /\ UNCHANGED <<plAudioBlob, plTargetText, plRecognition, plResult>>
    /\ UNCHANGED notPipelineVars

\* processRecording after the await: compareTexts, generateFeedback and
\* getLetterGrade; an exception is caught and rethrown as a new Error
ContinueProcessRecording ==
    /\ plPhase = "transcribed"
    /\ IF generateFeedbackThrows(plTargetText)
       THEN /\ plPhase' = "rejected"
            /\ UNCHANGED plResult
       ELSE /\ plPhase' = "resolved"
            /\ plResult' = recordingResult(plTranscription, plTargetText)
    /\ UNCHANGED <<plAudioBlob, plTargetText, plRecognition, plTranscription>>
    /\ UNCHANGED notPipelineVars

PipelineNext ==
    \/ StartProcessRecording
    \/ TimerFires
    \/ ContinueProcessRecording

----------------------------------------------------------------------------
(* PracticeAgent.ts: recordSession, getStats, importData, saveStats *)

\* the session history keeps the last 50 scores
MaxSessions == 50

\* getStats reports the last 10 scores
RecentSessions == 10

\* recordSession keeping the first 50 scores in place of the last 50
recordSession_keepFirst(history, sc) ==
    LET pushed == Append(history, sc)
    IN  IF Len(pushed) > MaxSessions THEN SubSeq(pushed, 1, MaxSessions) ELSE pushed

\* sessionHistory after recordSession(sc): push, then slice(-50) when longer
recordSession(history, sc) ==
    LET pushed == Append(history, sc)
    IN  IF Len(pushed) > MaxSessions THEN sliceLast(pushed, MaxSessions) ELSE pushed

\* localStorage after saveStats(): the item written holds the history and a
\* time stamp, here the number of the write; the write may throw, which
\* saveStats catches, and then the stored item stays what it was
saveStats(history, store, available) ==
    IF available
    THEN [present |-> TRUE, form |-> "history", sessionHistory |-> history,
          lastUpdated |-> store.lastUpdated + 1]
    ELSE store

\* saveStats without its try / catch: the exception of setItem gets out
saveStatsThrows_uncaught(available) == ~available

\* saveStats ends with an exception: never, the exception of setItem is
\* caught and logged
saveStatsThrows(available) == FALSE

\* sessionHistory after resetStats()
resetStats(history) == <<>>

\* what localStorage may hold that is no saved history: text that is no
\* JSON, and JSON without a sessionHistory
unparsable == [present |-> TRUE, form |-> "unparsable", sessionHistory |-> <<>>, lastUpdated |-> 0]

noHistoryField == [present |-> TRUE, form |-> "noHistoryField", sessionHistory |-> <<>>, lastUpdated |-> 0]

\* sessionHistory of a new PracticeAgent after loadStats(): getItem or
\* JSON.parse may throw, which loadStats catches
loadStats(store, readable) ==
    IF ~readable THEN <<>>
    ELSE IF ~store.present THEN <<>>
    ELSE IF store.form = "unparsable" THEN <<>>
    ELSE IF store.form = "noHistoryField" THEN <<>>
    ELSE store.sessionHistory

noStats == [sessionsCompleted |-> 0, averageScore |-> 0, recentScores |-> <<>>]

\* nothing exported yet
noExport == [exportDate |-> "none"]

\* getStats with the average cut off in place of rounded
getStats_floor(history) ==
    LET sessionsCompleted == Len(history)
        averageScore      == IF sessionsCompleted > 0
                             THEN sumOf(history) \div sessionsCompleted
                             ELSE 0
    IN  [sessionsCompleted |-> sessionsCompleted,
         averageScore      |-> averageScore,
         recentScores      |-> sliceLast(history, RecentSessions)]

getStats(history) ==
    LET sessionsCompleted == Len(history)
        averageScore      == IF sessionsCompleted > 0
                             THEN MathRound(Rat(sumOf(history), sessionsCompleted))
                             ELSE 0
    IN  [sessionsCompleted |-> sessionsCompleted,
         averageScore      |-> averageScore,
         recentScores      |-> sliceLast(history, RecentSessions)]

\* the values an array handed to importData may hold: numbers, NaN (whose
\* typeof is 'number' and which compares false with everything), and values
\* of other types
Number(n) == [type |-> "number", value |-> n]

NaN == [type |-> "NaN", value |-> 0]

StringOf(n) == [type |-> "string", value |-> n]

\* the check of one element without the range
isValidScore_anyNumber(e) == e.type \in {"number", "NaN"}

\* typeof score === 'number' && score >= 0 && score <= 100
isValidScore(e) == e.type = "number" /\ e.value >= 0 /\ e.value <= 100

\* the argument of importData: null, an object without sessionHistory, an
\* object whose sessionHistory is no array, or one whose sessionHistory is
\* the array items
nullData == [kind |-> "null", items |-> <<>>]

missingField == [kind |-> "missing", items |-> <<>>]

notArray == [kind |-> "notArray", items |-> <<>>]

ArrayData(items) == [kind |-> "array", items |-> items]

\* reading data.sessionHistory throws a TypeError when data is null; the
\* catch block of importData returns false
importThrows(data) == data.kind = "null"

\* Array.isArray(data.sessionHistory) && data.sessionHistory.every(...)
importAccepts(data) ==
    /\ ~importThrows(data)
    /\ data.kind = "array"
    /\ \A k \in 1..Len(data.items) : isValidScore(data.items[k])

\* the numbers of an accepted array
numbersOf(items) == [k \in 1..Len(items) |-> items[k].value]

----------------------------------------------------------------------------
(* The PracticeAgent as a state machine.  The agent is constructed on an    *)
(* empty localStorage; whether localStorage accepts writes is fixed for a   *)
(* run.  recorded is the list of all scores handed to recordSession.        *)

emptyStorage == [present |-> FALSE, form |-> "history", sessionHistory |-> <<>>, lastUpdated |-> 0]

\* the scores of the sessions
PracticeScores == {0, 1, 100, 101}

\* how often a score differs from the one recorded before it
scoreChanges(list) == Cardinality({k \in 2..Len(list) : list[k] # list[k - 1]})

\* the elements of the arrays handed to importData
ImportElements ==
    {Number(0), Number(100), Number(0 - 1), Number(101), NaN, StringOf(50)}

ImportArguments ==
    {nullData, missingField, notArray} \cup
    {ArrayData(items) : items \in UNION {[1..k -> ImportElements] : k \in 0..MaxImportLen}}

PracticeIdle ==
    /\ sessionHistory = <<>>
    /\ storage = emptyStorage
    /\ storageAvailable = FALSE
    /\ recorded = <<>>
    /\ practiceOp = "none"
    /\ stats = noStats
    /\ importArg = nullData
    /\ importResult = FALSE
    /\ threw = FALSE
    /\ storageReadable = TRUE
    /\ exported = noExport
    /\ otherHistory = <<>>
    /\ otherShares = FALSE

\* new PracticeAgent() on an empty localStorage: loadStats finds nothing
PracticeInit ==
    /\ sessionHistory = <<>>
    /\ storage = emptyStorage
    /\ storageAvailable \in BOOLEAN
    /\ recorded = <<>>
    /\ practiceOp = "none"
    /\ stats = noStats
    /\ importArg = nullData
    /\ importResult = FALSE
    /\ threw = FALSE
    /\ storageReadable = TRUE
    /\ exported = noExport
    /\ otherHistory = <<>>
    /\ otherShares = FALSE

RecordSession ==
    /\ Len(recorded) < MaxRecords
    /\ \E sc \in PracticeScores :
           /\ scoreChanges(Append(recorded, sc)) <= MaxScoreChanges
           /\ sessionHistory' = recordSession(sessionHistory, sc)
           /\ recorded' = Append(recorded, sc)
    /\ storage' = saveStats(sessionHistory', storage, storageAvailable)
    /\ practiceOp' = "recordSession"
    /\ stats' = noStats
    /\ threw' = saveStatsThrows(storageAvailable)
    /\ UNCHANGED <<storageAvailable, importArg, importResult>>
    /\ UNCHANGED <<storageReadable, exported, otherHistory, otherShares>>
    /\ UNCHANGED notPracticeVars

GetStats ==
    /\ practiceOp # "getStats"
    /\ practiceOp' = "getStats"
    /\ stats' = getStats(sessionHistory)
    /\ threw' = FALSE
    /\ UNCHANGED <<sessionHistory, storage, storageAvailable, recorded, importArg,
                   importResult>>
    /\ UNCHANGED <<storageReadable, exported, otherHistory, otherShares>>
    /\ UNCHANGED notPracticeVars

PracticeNext ==
    \/ RecordSession
    \/ GetStats

\* importData(data)
importDataOf(data) ==
    /\ importArg' = data
    /\ importResult' = importAccepts(data)
    /\ sessionHistory' = IF importAccepts(data) THEN numbersOf(data.items)
                         ELSE sessionHistory
    /\ storage' = IF importAccepts(data)
                  THEN saveStats(sessionHistory', storage, storageAvailable)
                  ELSE storage

\* an agent that has recorded up to MaxImportLen sessions is handed data
ImportData ==
    /\ storage.lastUpdated < MaxWrites
    /\ \E data \in ImportArguments : importDataOf(data)
    /\ practiceOp' = "importData"
    /\ stats' = noStats
    /\ threw' = (importResult' /\ saveStatsThrows(storageAvailable))
    /\ UNCHANGED <<storageAvailable, recorded>>
    /\ UNCHANGED <<storageReadable, exported, otherHistory, otherShares>>
    /\ UNCHANGED notPracticeVars

RecordBeforeImport ==
    /\ practiceOp \in {"none", "recordSession"}
    /\ Len(recorded) < MaxImportLen
    /\ RecordSession

ImportNext ==
    \/ RecordBeforeImport
    \/ ImportData

----------------------------------------------------------------------------
(* PracticeAgent.ts: getProgressTrend, getRecommendedDifficulty *)

\* the IEEE value a division by zero gives
Infinity == [type |-> "Infinity", value |-> 0]

\* x / y for y # 0, with a positive denominator
RDiv(x, y) ==
    IF y.n > 0 THEN Rat(x.n * y.d, x.d * y.n)
    ELSE Rat(0 - x.n * y.d, 0 - x.d * y.n)

\* Array.prototype.slice(-10, -5): the five elements before the last five,
\* fewer when the list is shorter than ten, none when it is no longer than five
sliceEarlier(list) == SubSeq(list, MathMax(1, Len(list) - 9), Len(list) - 5)

\* reduce((sum, score) => sum + score, 0) / length, for a list that is not empty
averageOf(list) == Rat(sumOf(list), Len(list))

\* Math.abs(Math.round((difference / earlierAverage) * 100)): a division by
\* zero gives NaN for 0 / 0 and an infinity otherwise, which Math.round and
\* Math.abs hand on
trendPercentageOf(difference, earlierAverage) ==
    IF earlierAverage.n = 0
    THEN IF difference.n = 0 THEN NaN ELSE Infinity
    ELSE Number(MathAbs(MathRound(RMul(RDiv(difference, earlierAverage), Int2Rat(100)))))

insufficientData == [trend |-> "insufficient_data", trendPercentage |-> Number(0)]

getProgressTrend(history) ==
    IF Len(history) < 3 THEN insufficientData
    ELSE LET recent  == sliceLast(history, 5)
             earlier == sliceEarlier(history)
         IN  IF Len(earlier) = 0 THEN insufficientData
             ELSE LET recentAverage  == averageOf(recent)
                      earlierAverage == averageOf(earlier)
                      difference     == RSub(recentAverage, earlierAverage)
                      absDifference  == IF difference.n < 0
                                        THEN Rat(0 - difference.n, difference.d)
                                        ELSE difference
                  IN  [trend |-> IF RLess(absDifference, Int2Rat(2)) THEN "stable"
                                 ELSE IF difference.n > 0 THEN "improving"
                                 ELSE "declining",
                       trendPercentage |-> trendPercentageOf(difference, earlierAverage)]

getRecommendedDifficulty(history) ==
    IF Len(history) < 3 THEN 3
    ELSE LET recentAverage == Rat(sumOf(sliceLast(history, 5)), MathMin(5, Len(history)))
         IN  IF RLeq(Int2Rat(90), recentAverage) THEN 8
             ELSE IF RLeq(Int2Rat(80), recentAverage) THEN 6
             ELSE IF RLeq(Int2Rat(70), recentAverage) THEN 4
             ELSE IF RLeq(Int2Rat(60), recentAverage) THEN 2
             ELSE 1

----------------------------------------------------------------------------
(* The trend functions on a fresh PracticeAgent that has recorded a list   *)
(* of scores.                                                              *)

\* sessionHistory after the scores were handed to recordSession one by one
RECURSIVE recordAll(_, _)
recordAll(history, scores) ==
    IF scores = <<>> THEN history
    ELSE recordAll(recordSession(history, Head(scores)), Tail(scores))

\* the scores of the sessions of integration.test.ts: a weak start, then
\* an improvement
WeakStart == <<40, 45, 50>>

Improvement == <<80, 85, 90, 92, 95>>

TrendScores == {0, 1, 3, 50, 100}

\* n sessions of the same score
steady(sc, n) == [k \in 1..n |-> sc]

\* the lists of scores recorded: runs of one score followed by runs of
\* another, and the beginnings of the sessions of integration.test.ts
ScoreLists ==
    {steady(a, i) \o steady(b, j) :
         a \in TrendScores, b \in TrendScores, i \in 0..MaxTrendRun, j \in 0..MaxTrendRun}
    \cup {SubSeq(WeakStart \o Improvement, 1, k) : k \in 0..8}

noTrend == [trend |-> "none", trendPercentage |-> Number(0)]

TrendIdle ==
    /\ trScores = <<>>
    /\ trHistory = <<>>
    /\ trOp = "none"
    /\ trTrend = noTrend
    /\ trDifficulty = 0

TrendInit ==
    /\ trScores \in ScoreLists
    /\ trHistory = recordAll(<<>>, trScores)
    /\ trOp = "none"
    /\ trTrend = noTrend
    /\ trDifficulty = 0

CallGetProgressTrend ==
    /\ trOp' = "getProgressTrend"
    /\ trTrend' = getProgressTrend(trHistory)
    /\ UNCHANGED <<trScores, trHistory, trDifficulty>>
    /\ UNCHANGED notTrendVars

CallGetRecommendedDifficulty ==
    /\ trOp' = "getRecommendedDifficulty"
    /\ trDifficulty' = getRecommendedDifficulty(trHistory)
    /\ UNCHANGED <<trScores, trHistory, trTrend>>
    /\ UNCHANGED notTrendVars

TrendNext ==
    \/ CallGetProgressTrend
    \/ CallGetRecommendedDifficulty

----------------------------------------------------------------------------
(* PracticeAgent.ts: exportData, resetStats, loadStats.  Two agents of one *)
(* page share localStorage; an array handed from one object to another is  *)
(* the same array, which push changes in place.                            *)

\* exportData handing out the agent's own array in place of a copy
exportData_noCopy(history) ==
    [sessionsCompleted |-> Len(history),
     sessionHistory    |-> history,
     stats             |-> getStats(history),
     trend             |-> getProgressTrend(history),
     exportDate        |-> "now",
     shared            |-> TRUE]

\* the object exportData returns; shared tells whether its sessionHistory is
\* the agent's own array: it is not, [...this.sessionHistory] is a new array
exportData(history) ==
    [sessionsCompleted |-> Len(history),
     sessionHistory    |-> history,
     stats             |-> getStats(history),
     trend             |-> getProgressTrend(history),
     exportDate        |-> "now",
     shared            |-> FALSE]

\* the exported object as an argument of importData
asImportData(e) == ArrayData([k \in 1..Len(e.sessionHistory) |-> Number(e.sessionHistory[k])])

\* agent1.recordSession, before anything is exported or imported
\* (RecordBeforeImport), then agent1.exportData()
ExportData ==
    /\ practiceOp' = "exportData"
    /\ exported' = exportData(sessionHistory)
    /\ otherShares' = FALSE
    /\ threw' = FALSE
    /\ UNCHANGED <<sessionHistory, storage, storageAvailable, recorded, stats, importArg,
                   importResult, storageReadable, otherHistory>>
    /\ UNCHANGED notPracticeVars

\* agent2 = new PracticeAgent(): loadStats reads what agent1 saved
ConstructOther ==
    /\ practiceOp # "constructOther"
    /\ practiceOp' = "constructOther"
    /\ otherHistory' = loadStats(storage, storageReadable)
    /\ otherShares' = FALSE
    /\ threw' = FALSE
    /\ UNCHANGED <<sessionHistory, storage, storageAvailable, recorded, stats, importArg,
                   importResult, storageReadable, exported>>
    /\ UNCHANGED notPracticeVars

\* agent2.resetStats()
ResetOther ==
    /\ storage.lastUpdated < MaxWrites
    /\ practiceOp' = "resetOther"
    /\ otherHistory' = resetStats(otherHistory)
    /\ otherShares' = FALSE
    /\ storage' = saveStats(otherHistory', storage, storageAvailable)
    /\ threw' = saveStatsThrows(storageAvailable)
    /\ UNCHANGED <<sessionHistory, storageAvailable, recorded, stats, importArg,
                   importResult, storageReadable, exported>>
    /\ UNCHANGED notPracticeVars

\* agent2.importData(exported): when accepted, agent2's history is the very
\* array of the exported object
ImportExported ==
    /\ exported # noExport
    /\ storage.lastUpdated < MaxWrites
    /\ practiceOp' = "importExported"
    /\ importArg' = asImportData(exported)
    /\ importResult' = importAccepts(importArg')
    /\ otherHistory' = IF importResult' THEN exported.sessionHistory ELSE otherHistory
    /\ otherShares' = (importResult' \/ otherShares)
    /\ storage' = IF importResult'
                  THEN saveStats(otherHistory', storage, storageAvailable)
                  ELSE storage
    /\ threw' = FALSE
    /\ UNCHANGED <<sessionHistory, storageAvailable, recorded, stats, storageReadable,
                   exported>>
    /\ UNCHANGED notPracticeVars

\* agent2.recordSession(sc): push changes agent2's array in place, and with
\* it every object that holds the same array; slice(-50) makes a new array
RecordOther ==
    /\ Len(otherHistory) < MaxOtherRecords + MaxImportLen
    /\ storage.lastUpdated < MaxWrites
    /\ \E sc \in PracticeScores :
           LET pushed == Append(otherHistory, sc)
           IN  /\ otherHistory' = recordSession(otherHistory, sc)
               /\ exported' = IF otherShares
                              THEN [exported EXCEPT !.sessionHistory = pushed]
                              ELSE exported
               /\ sessionHistory' = IF otherShares /\ exported.shared
                                    THEN pushed
                                    ELSE sessionHistory
               /\ otherShares' = (otherShares /\ Len(pushed) <= MaxSessions)
    /\ practiceOp' = "recordOther"
    /\ storage' = saveStats(otherHistory', storage, storageAvailable)
    /\ threw' = saveStatsThrows(storageAvailable)
    /\ UNCHANGED <<storageAvailable, recorded, stats, importArg, importResult,
                   storageReadable>>
    /\ UNCHANGED notPracticeVars

BackupNext ==
    \/ RecordBeforeImport
    \/ ExportData
    \/ ConstructOther
    \/ ResetOther
    \/ ImportExported
    \/ RecordOther

----------------------------------------------------------------------------
(* PracticeAgent.ts: the agent on a localStorage that holds anything and  *)
(* whose reads and writes may throw                                        *)

\* what the item 'pronunciation-practice-stats' may hold when an agent is
\* constructed
StoredItems ==
    {emptyStorage, unparsable, noHistoryField} \cup
    {[present |-> TRUE, form |-> "history", sessionHistory |-> h, lastUpdated |-> 0] :
        h \in {<<>>, <<100>>, <<0, 100>>}}

\* new PracticeAgent() on such a localStorage
StorageInit ==
    /\ storage \in StoredItems
    /\ storageAvailable \in BOOLEAN
    /\ storageReadable \in BOOLEAN
    /\ sessionHistory = loadStats(storage, storageReadable)
    /\ recorded = <<>>
    /\ practiceOp = "none"
    /\ stats = noStats
    /\ importArg = nullData
    /\ importResult = FALSE
    /\ threw = FALSE
    /\ exported = noExport
    /\ otherHistory = <<>>
    /\ otherShares = FALSE

\* the page is loaded again: a new agent takes the place of the old one
Construct ==
    /\ practiceOp # "construct"
    /\ practiceOp' = "construct"
    /\ sessionHistory' = loadStats(storage, storageReadable)
    /\ stats' = noStats
    /\ threw' = FALSE
    /\ UNCHANGED <<storage, storageAvailable, recorded, importArg, importResult,
                   storageReadable, exported, otherHistory, otherShares>>
    /\ UNCHANGED notPracticeVars

ResetStats ==
    /\ storage.lastUpdated < MaxWrites
    /\ practiceOp' = "resetStats"
    /\ sessionHistory' = resetStats(sessionHistory)
    /\ storage' = saveStats(sessionHistory', storage, storageAvailable)
    /\ stats' = noStats
    /\ threw' = saveStatsThrows(storageAvailable)
    /\ UNCHANGED <<storageAvailable, recorded, importArg, importResult,
                   storageReadable, exported, otherHistory, otherShares>>
    /\ UNCHANGED notPracticeVars

\* data for importData: nothing, two scores, a score out of range, and
\* arrays of scores as long as the history may get and longer by one
BackupFiles ==
    {nullData, ArrayData(<<Number(100), Number(0)>>), ArrayData(<<Number(101)>>)} \cup
    {ArrayData([k \in 1..n |-> Number(0)]) : n \in {MaxSessions, MaxSessions + 1}}

ImportBackupFile ==
    /\ storage.lastUpdated < MaxWrites
    /\ \E data \in BackupFiles : importDataOf(data)
    /\ practiceOp' = "importData"
    /\ stats' = noStats
    /\ threw' = (importResult' /\ saveStatsThrows(storageAvailable))
    /\ UNCHANGED <<storageAvailable, recorded, storageReadable, exported, otherHistory,
                   otherShares>>
    /\ UNCHANGED notPracticeVars

\* recordSession at any time, up to MaxImportLen times
RecordAgain ==
    /\ Len(recorded) < MaxImportLen
    /\ RecordSession

StorageNext ==
    \/ Construct
    \/ RecordAgain
    \/ ResetStats
    \/ ImportBackupFile
    \/ GetStats

----------------------------------------------------------------------------
(* Recorder (src/unnamed/part_002) inside PracticeLoop.tsx: one page, the  *)
(* user's clicks, the two interval timers, the stop event of the           *)
(* MediaRecorder and the return of processRecording as separate steps.     *)
(* A callback sees the state of the render that made it.                   *)

\* maxDuration={30}, the prop PracticeLoop hands to the Recorder
maxDuration == 30

\* setTimer(30): the reading time of a session
ReadingTime == 30

\* the texts agent.startPracticeSession() may return
LoopTexts == {<<"a", "r", "t">>, <<"t", "a", "r">>}

\* feedback === null
noFeedback == [present |-> FALSE, target |-> <<>>]

\* no startRecording has run in this Recorder
noClosure == [isRecording |-> FALSE, currentText |-> <<>>]

\* the Recorder as mounted: useState(false), useState(null), useState(0),
\* useRef(null)
RecorderMounts ==
    /\ recIsRecording' = FALSE
    /\ recHasPermission' = "null"
    /\ recRecordingTime' = 0
    /\ recMediaRecorder' = "none"
    /\ recTimerRef' = FALSE
    /\ recClosure' = noClosure

\* mediaRecorderRef.current.stop(); setIsRecording(false);
\* onRecordingStateChange(false); clearInterval(timerRef.current): the body
\* shared by stopRecording and the interval callback.  The stop event is
\* queued with the text its onstop handler will hand to processRecording.
stopsRecording ==
    /\ recMediaRecorder' = "inactive"
    /\ recStopEvent' = Append(recStopEvent, [currentText |-> recClosure.currentText,
                                             mounted |-> TRUE])
    /\ recIsRecording' = FALSE
    /\ loopIsRecording' = FALSE
    /\ recTimerRef' = FALSE

\* if (newTime >= maxDuration) { if (mediaRecorderRef.current && isRecording)
autoStopDue(newTime) ==
    /\ newTime >= maxDuration
    /\ recMediaRecorder # "none"
    /\ recClosure.isRecording

SessionIdle ==
    /\ loopCurrentText = <<>>
    /\ loopSessionStarted = FALSE
    /\ loopIsRecording = FALSE
    /\ loopFeedback = noFeedback
    /\ loopLoading = FALSE
    /\ loopTimer = ReadingTime
    /\ loopTimerActive = FALSE
    /\ loopPending = <<>>
    /\ loopSessions = <<>>
    /\ recIsRecording = FALSE
    /\ recHasPermission = "null"
    /\ recRecordingTime = 0
    /\ recMediaRecorder = "none"
    /\ recTimerRef = FALSE
    /\ recClosure = noClosure
    /\ recStopEvent = <<>>

\* the page as loaded: the welcome screen, no Recorder mounted
SessionInit == SessionIdle

\* click on "Start Practice Session"; the Recorder is mounted
StartNewSession ==
    /\ ~loopSessionStarted
    /\ \E newText \in LoopTexts : loopCurrentText' = newText
    /\ loopFeedback' = noFeedback
    /\ loopSessionStarted' = TRUE
    /\ loopTimer' = ReadingTime
    /\ loopTimerActive' = TRUE
    /\ RecorderMounts
    /\ UNCHANGED <<loopIsRecording, loopLoading, loopPending, loopSessions, recStopEvent>>
    /\ UNCHANGED notSessionVars

\* click on "New Text"; the Recorder is unmounted, and its cleanup clears
\* the interval.  Stop events already queued are still delivered, and calls
\* of processRecording still return.
ResetSession ==
    /\ loopSessionStarted
    /\ loopSessionStarted' = FALSE
    /\ loopCurrentText' = <<>>
    /\ loopFeedback' = noFeedback
    /\ loopTimer' = ReadingTime
    /\ loopTimerActive' = FALSE
    /\ loopIsRecording' = FALSE
    /\ RecorderMounts
    /\ recStopEvent' = [k \in 1..Len(recStopEvent) |->
                           [recStopEvent[k] EXCEPT !.mounted = FALSE]]
    /\ loopPending' = [k \in 1..Len(loopPending) |->
                          [loopPending[k] EXCEPT !.mounted = FALSE]]
    /\ UNCHANGED <<loopLoading, loopSessions>>
    /\ UNCHANGED notSessionVars

\* click on "Allow Microphone" or "Try Again": getUserMedia resolves or
\* rejects
RequestPermission ==
    /\ loopSessionStarted
    /\ recHasPermission # "granted"
    /\ ~loopLoading
    /\ \E answer \in {"granted", "denied"} : recHasPermission' = answer
    /\ UNCHANGED <<loopCurrentText, loopSessionStarted, loopIsRecording, loopFeedback,
                   loopLoading, loopTimer, loopTimerActive, loopPending, loopSessions,
                   recIsRecording, recRecordingTime, recMediaRecorder, recTimerRef,
                   recClosure, recStopEvent>>
    /\ UNCHANGED notSessionVars

\* click on "Start Recording", which is rendered when hasPermission is true
\* and isRecording is false, and disabled while loading
StartRecording ==
    /\ loopSessionStarted
    /\ recHasPermission = "granted"
    /\ ~recIsRecording
    /\ ~loopLoading
    /\ Len(loopSessions) + Len(loopPending) + Len(recStopEvent) < MaxLoopSessions
    /\ recMediaRecorder' = "recording"
    /\ recIsRecording' = TRUE
    /\ loopIsRecording' = TRUE
    /\ recRecordingTime' = 0
    /\ recTimerRef' = TRUE
    /\ recClosure' = [isRecording |-> recIsRecording, currentText |-> loopCurrentText]
    /\ UNCHANGED <<loopCurrentText, loopSessionStarted, loopFeedback, loopLoading,
                   loopTimer, loopTimerActive, loopPending, loopSessions,
                   recHasPermission, recStopEvent>>
    /\ UNCHANGED notSessionVars

\* the interval of the Recorder fires: setRecordingTime(prev => ...)
RecorderTick ==
    /\ recTimerRef
    /\ recRecordingTime < MaxRecordingTime
    /\ LET newTime == recRecordingTime + 1
       IN  /\ recRecordingTime' = newTime
           /\ IF autoStopDue(newTime)
              THEN stopsRecording
              ELSE UNCHANGED <<recMediaRecorder, recStopEvent, recIsRecording,
                               loopIsRecording, recTimerRef>>
    /\ UNCHANGED <<loopCurrentText, loopSessionStarted, loopFeedback, loopLoading,
                   loopTimer, loopTimerActive, loopPending, loopSessions,
                   recHasPermission, recClosure>>
    /\ UNCHANGED notSessionVars

\* click on "Stop Recording", which is rendered while isRecording is true
StopRecording ==
    /\ loopSessionStarted
    /\ recHasPermission = "granted"
    /\ recIsRecording
    /\ ~loopLoading
    /\ recMediaRecorder # "none"
    /\ stopsRecording
    /\ UNCHANGED <<loopCurrentText, loopSessionStarted, loopFeedback, loopLoading,
                   loopTimer, loopTimerActive, loopPending, loopSessions,
                   recHasPermission, recRecordingTime, recClosure>>
    /\ UNCHANGED notSessionVars

\* mediaRecorder.onstop up to its await: with audio captured it calls
\* onRecordingComplete, that is handleRecordingComplete of the render in
\* which recording started, which runs up to its await of processRecording;
\* without audio it goes on to setRecordingTime(0)
OnStop ==
    /\ recStopEvent # <<>>
    /\ LET event == Head(recStopEvent)
       IN  \E blobSize \in {0, 1} :
               IF blobSize > 0 /\ event.currentText # <<>>
               THEN /\ loopLoading' = TRUE
                    /\ loopTimerActive' = FALSE
                    /\ loopPending' = Append(loopPending, event)
                    /\ UNCHANGED recRecordingTime
               ELSE /\ recRecordingTime' = IF event.mounted THEN 0 ELSE recRecordingTime
                    /\ UNCHANGED <<loopLoading, loopTimerActive, loopPending>>
    /\ recStopEvent' = Tail(recStopEvent)
    /\ UNCHANGED <<loopCurrentText, loopSessionStarted, loopIsRecording, loopFeedback,
                   loopTimer, loopSessions, recIsRecording, recHasPermission,
                   recMediaRecorder, recTimerRef, recClosure>>
    /\ UNCHANGED notSessionVars

\* processRecording returns: setFeedback(result),
\* agent.recordPracticeSession(result.score), setLoading(false), and then
\* the rest of onstop, setRecordingTime(0)
ResultArrives ==
    /\ loopPending # <<>>
    /\ LET call == Head(loopPending)
       IN  /\ loopFeedback' = [present |-> TRUE, target |-> call.currentText]
           /\ loopSessions' = Append(loopSessions, [target |-> call.currentText,
                                                    displayed |-> loopCurrentText])
           /\ recRecordingTime' = IF call.mounted THEN 0 ELSE recRecordingTime
    /\ loopPending' = Tail(loopPending)
    /\ loopLoading' = FALSE
    /\ UNCHANGED <<loopCurrentText, loopSessionStarted, loopIsRecording, loopTimer,
                   loopTimerActive, recIsRecording, recHasPermission, recMediaRecorder,
                   recTimerRef, recClosure, recStopEvent>>
    /\ UNCHANGED notSessionVars

\* the interval of the timer effect fires: setTimer(timer => timer - 1)
LoopTick ==
    /\ loopTimerActive
    /\ loopTimer > 0
    /\ loopTimer' = loopTimer - 1
    /\ UNCHANGED <<loopCurrentText, loopSessionStarted, loopIsRecording, loopFeedback,
                   loopLoading, loopTimerActive, loopPending, loopSessions,
                   recIsRecording, recHasPermission, recRecordingTime, recMediaRecorder,
                   recTimerRef, recClosure, recStopEvent>>
    /\ UNCHANGED notSessionVars

\* the timer effect at timer === 0: setTimerActive(false), and
\* handleStopRecording() when isRecording
LoopTimerExpires ==
    /\ loopTimer = 0
    /\ loopTimerActive \/ loopIsRecording
    /\ loopTimerActive' = FALSE
    /\ loopIsRecording' = FALSE
    /\ UNCHANGED <<loopCurrentText, loopSessionStarted, loopFeedback, loopLoading,
                   loopTimer, loopPending, loopSessions, recIsRecording,
                   recHasPermission, recRecordingTime, recMediaRecorder, recTimerRef,
                   recClosure, recStopEvent>>
    /\ UNCHANGED notSessionVars

SessionNext ==
    \/ StartNewSession
    \/ ResetSession
    \/ RequestPermission
    \/ StartRecording
    \/ RecorderTick
    \/ StopRecording
    \/ OnStop
    \/ ResultArrives
    \/ LoopTick
    \/ LoopTimerExpires

----------------------------------------------------------------------------
(* Specifications: one per group of functions; the other groups stay idle *)

\* no group but the named one is in use
IdleBut(group) ==
    /\ group = "compare" \/ CompareIdle
    /\ group = "grade" \/ GradeIdle
    /\ group = "feedback" \/ FeedbackIdle
    /\ group = "motivation" \/ MotivationIdle
    /\ group = "difficulty" \/ DifficultyIdle
    /\ group = "similarity" \/ SimilarityIdle
    /\ group = "malformed" \/ MalformedIdle
    /\ group = "pipeline" \/ PipelineIdle
    /\ group = "practice" \/ PracticeIdle
    /\ group = "trend" \/ TrendIdle
    /\ group = "session" \/ SessionIdle

CompareSpecInit == CompareInit /\ IdleBut("compare")

SpecCompare == CompareSpecInit /\ [][CompareNext]_vars

GradeSpecInit == GradeInit /\ IdleBut("grade")

SpecGrade == GradeSpecInit /\ [][GradeNext]_vars

FeedbackSpecInit == FeedbackInit /\ IdleBut("feedback")

SpecFeedback == FeedbackSpecInit /\ [][FeedbackNext]_vars

MotivationSpecInit == MotivationInit /\ IdleBut("motivation")

SpecMotivation == MotivationSpecInit /\ [][MotivationNext]_vars

DifficultySpecInit == DifficultyInit /\ IdleBut("difficulty")

SpecDifficulty == DifficultySpecInit /\ [][DifficultyNext]_vars

SimilaritySpecInit == SimilarityInit /\ IdleBut("similarity")

SpecSimilarity == SimilaritySpecInit /\ [][SimilarityNext]_vars

CorrectionSpecInit == CompareInit /\ IdleBut("compare")

SpecCorrection == CorrectionSpecInit /\ [][CorrectionNext]_vars

MalformedSpecInit == MalformedInit /\ IdleBut("malformed")

SpecMalformed == MalformedSpecInit /\ [][MalformedNext]_vars

PipelineSpecInit == PipelineInit /\ IdleBut("pipeline")

SpecPipeline == PipelineSpecInit /\ [][PipelineNext]_vars

\* the step of ContinueProcessRecording as the phase shows it: under
\* PipelineNext no other action leaves the phase "transcribed"
ContinuationRuns ==
    /\ plPhase = "transcribed"
    /\ plPhase' \in {"rejected", "resolved"}

\* timers fire and a resolved promise runs its continuation
SpecPipelineFair ==
    /\ PipelineSpecInit
    /\ [][PipelineNext]_vars
    /\ WF_vars(TimerFires)
    /\ WF_plPhase(ContinuationRuns)

PracticeSpecInit == PracticeInit /\ IdleBut("practice")

SpecPractice == PracticeSpecInit /\ [][PracticeNext]_vars

ImportSpecInit == PracticeInit /\ IdleBut("practice")

SpecImport == ImportSpecInit /\ [][ImportNext]_vars

TrendSpecInit == TrendInit /\ IdleBut("trend")

SpecTrend == TrendSpecInit /\ [][TrendNext]_vars

BackupSpecInit == PracticeInit /\ IdleBut("practice")

SpecBackup == BackupSpecInit /\ [][BackupNext]_vars

StorageSpecInit == StorageInit /\ IdleBut("practice")

SpecStorage == StorageSpecInit /\ [][StorageNext]_vars

SessionSpecInit == SessionInit /\ IdleBut("session")

SpecSession == SessionSpecInit /\ [][SessionNext]_vars

\* either two texts are compared or a recording is processed
CeilingInit ==
    \/ CompareInit /\ IdleBut("compare")
    \/ PipelineInit /\ IdleBut("pipeline")

CeilingNext ==
    \/ CallCompareTexts
    \/ StartProcessRecording
    \/ TimerFires
    \/ ContinueProcessRecording

SpecCeiling == CeilingInit /\ [][CeilingNext]_vars

----------------------------------------------------------------------------
(* Vocabulary of the properties *)

\* the increasing enumeration of a finite set of integers
RECURSIVE sortedSeq(_)
sortedSeq(S) ==
    IF S = {} THEN <<>>
    ELSE LET m == CHOOSE x \in S : \A y \in S : x <= y
         IN  <<m>> \o sortedSeq(S \ {m})

\* the words of a text: its maximal runs of non-whitespace characters, in order
WordsOf(s) ==
    LET isLetter(i) == s[i] \notin Whitespace
        starts == {i \in 1..Len(s) : isLetter(i) /\ (i = 1 \/ ~isLetter(i - 1))}
        endOf(i) == CHOOSE j \in i..Len(s) :
                        /\ \A k \in i..j : isLetter(k)
                        /\ (j = Len(s) \/ ~isLetter(j + 1))
        order == sortedSeq(starts)
    IN  [k \in 1..Len(order) |-> SubSeq(s, order[k], endOf(order[k]))]

HasWord(s) == WordsOf(s) # <<>>

\* the lowercase word sequence of a text
NormWords(s) == WordsOf(toLowerCase(s))

IsScoreOp == op \in {"compareTexts", "comparePhonemes"}

\* C1: compareTexts of a text with at least one word against itself, or
\* against a text that differs from it only in letter case, returns 100.
C1_IdenticalTextsScore100 ==
    (op = "compareTexts" /\ HasWord(userText)
        /\ toLowerCase(userText) = toLowerCase(targetText))
    => score = 100

\* C2: compareTexts returns an integer between 0 and 100 for all inputs.
C2_ScoreWithinRange ==
    op = "compareTexts" => score \in 0..100

\* a call on texts of different word counts and no common word, whose weighted
\* sum is negative before the clamp
C2_Witness ==
    /\ op = "compareTexts"
    /\ userText = <<"a">>
    /\ targetText = <<"b", " ", "b">>
    /\ score = 0

\* C3: compareTexts and comparePhonemes return 0 whenever userText or
\* targetText is the empty string.
C3_EmptyTextScoresZero ==
    (IsScoreOp /\ (userText = <<>> \/ targetText = <<>>)) => score = 0

C3_Witness ==
    /\ op = "comparePhonemes"
    /\ userText = <<>>
    /\ HasWord(targetText)
    /\ score = 0

\* C4: compareTexts returns 0 whenever either input is empty after whitespace
\* trimming (empty or whitespace only).
C4_BlankTextScoresZero ==
    (op = "compareTexts" /\ (~HasWord(userText) \/ ~HasWord(targetText)))
    => score = 0

\* C5: for texts that each contain a word, a change of letter case or of the
\* amount of whitespace that leaves the lowercase word sequences as they were
\* leaves the result of comparePhonemes and of compareTexts as it was.
C5_ScoreDependsOnWordsOnly ==
    [][(/\ IsScoreOp
        /\ op' = op
        /\ HasWord(userText)
        /\ HasWord(targetText)
        /\ NormWords(userText') = NormWords(userText)
        /\ NormWords(targetText') = NormWords(targetText))
       => score' = score]_vars

\* a scored pair in mixed case with leading and repeated inner whitespace
C5_Witness ==
    /\ op = "compareTexts"
    /\ userText = <<"A", " ", " ", "a">>
    /\ targetText = <<" ", "a", " ", "A">>
    /\ score = 74

\* the word sequence the scoring formula is stated over: the lowercase words,
\* a text without any word counting as one empty word
ScoredWords(s) == IF HasWord(s) THEN NormWords(s) ELSE << <<>> >>

\* sum over the positions i <= min(U,T) of 1 if the words are equal, else of
\* their similarity
PositionalSum(user, target) ==
    LET m == MathMin(Len(user), Len(target))
        S[k \in 0..m] ==
            IF k = 0 THEN Int2Rat(0)
            ELSE RAdd(S[k - 1],
                      IF user[k] = target[k] THEN Int2Rat(1)
                      ELSE calculateStringSimilarity(user[k], target[k]))
    IN  S[m]

\* the longest run of consecutive positions at which the words are equal
LongestRun(user, target) ==
    LET m == MathMin(Len(user), Len(target))
        runs == {<<i, j>> \in (1..m) \X (1..m) :
                    i <= j /\ \A k \in i..j : user[k] = target[k]}
    IN  IF runs = {} THEN 0
        ELSE LET r == CHOOSE r \in runs :
                          \A q \in runs : q[2] - q[1] <= r[2] - r[1]
             IN  r[2] - r[1] + 1

RClamp(x, lo, hi) ==
    IF RLess(x, Int2Rat(lo)) THEN Int2Rat(lo)
    ELSE IF RLess(Int2Rat(hi), x) THEN Int2Rat(hi)
    ELSE x

\* round(clamp(base*0.7 + bonus*0.2 - penalty*0.1, 0, 100)) for a given base
WeightedScore(base, user, target) ==
    LET U == Len(user)
        T == Len(target)
        penalty == RMul(Rat(MathAbs(U - T), MathMax(U, T)), Int2Rat(30))
        bonus == RMul(Rat(LongestRun(user, target), T), Int2Rat(20))
    IN  MathRound(RClamp(RSub(RAdd(RMul(base, Rat(7, 10)), RMul(bonus, Rat(2, 10))),
                              RMul(penalty, Rat(1, 10))), 0, 100))

\* 100 * sum / max(U,T), not rounded
ExactBase(user, target) ==
    RMul(Int2Rat(100),
         RDivInt(PositionalSum(user, target), MathMax(Len(user), Len(target))))

\* C6 as stated: for non-empty inputs compareTexts is the weighted formula
\* over a base taken without intermediate rounding.
C6_FormulaWithExactBase ==
    (op = "compareTexts" /\ userText # <<>> /\ targetText # <<>>)
    => score = WeightedScore(ExactBase(ScoredWords(userText), ScoredWords(targetText)),
                             ScoredWords(userText), ScoredWords(targetText))

\* C6 as amended: for non-empty inputs compareTexts is the weighted formula
\* over the base rounded to the nearest integer (comparePhonemes' result).
C6_FormulaWithRoundedBase ==
    (op = "compareTexts" /\ userText # <<>> /\ targetText # <<>>)
    => score = WeightedScore(
                   Int2Rat(MathRound(ExactBase(ScoredWords(userText),
                                               ScoredWords(targetText)))),
                   ScoredWords(userText), ScoredWords(targetText))

\* one word against three: base 33 rounded from 100/3, penalty 20, bonus 20/3
C6_Witness ==
    /\ op = "compareTexts"
    /\ userText = <<"a">>
    /\ targetText = <<"a", " ", "a", " ", "a">>
    /\ score = 22

\* the indices of 1..n that satisfy Keep, in increasing order
FilterIndices(n, Keep(_)) == sortedSeq({i \in 1..n : Keep(i)})

\* C8: analyzeErrors is positional over the lowercase word sequences: target
\* words beyond the user's last word are the missed words, user words beyond
\* the target's last word are the added words, and the unequal pairs at common
\* positions are the substitutions, each list in position order.
C8_ErrorsArePositional ==
    op = "analyzeErrors" =>
        LET user   == NormWords(userText)
            target == NormWords(targetText)
            U == Len(user)
            T == Len(target)
            Differ(i) == user[i] # target[i]
            subs == FilterIndices(MathMin(U, T), Differ)
        IN  /\ report.missedWords = SubSeq(target, U + 1, T)
            /\ report.addedWords = SubSeq(user, T + 1, U)
            /\ report.substitutions =
                   [k \in 1..Len(subs) |->
                       [original |-> target[subs[k]], spoken |-> user[subs[k]]]]
            /\ (user = target => report = emptyReport)

\* a report with a substitution and a missed word, and one of an empty text
C8_Witness ==
    /\ op = "analyzeErrors"
    /\ userText = <<"A">>
    /\ targetText = <<"b", " ", "a", "b">>
    /\ report.substitutions = <<[original |-> <<"b">>, spoken |-> <<"a">>]>>
    /\ report.missedWords = << <<"a", "b">> >>
    /\ report.addedWords = <<>>

\* the letter grades from the lowest to the highest
GradeOrder == <<"F", "D", "D+", "C-", "C", "C+", "B-", "B", "B+", "A-", "A", "A+">>

\* the thresholds of the grades above F, as in GradeOrder
GradeThresholds == <<65, 67, 70, 73, 77, 80, 83, 87, 90, 93, 97>>

GradeRank(g) == CHOOSE k \in 1..Len(GradeOrder) : GradeOrder[k] = g

\* the token of the highest threshold the score reaches, F if it reaches none
HighestGradeReached(x) ==
    LET reached == {k \in 1..Len(GradeThresholds) : RLeq(Int2Rat(GradeThresholds[k]), x)}
    IN  IF reached = {} THEN "F"
        ELSE GradeOrder[1 + CHOOSE k \in reached : \A j \in reached : j <= k]

GradeAsClaimed(x, g) ==
    /\ \E k \in 1..Len(GradeOrder) : GradeOrder[k] = g
    /\ g = HighestGradeReached(x)
    /\ (RLess(x, Int2Rat(0)) => g = "F")
    /\ (RLess(Int2Rat(100), x) => g = "A+")

\* C7: getLetterGrade maps every score, fractional, negative or above 100, to
\* the token of the highest threshold among 97/93/90/87/83/80/77/73/70/67/65
\* that the score reaches, F if none; a higher score never gets a lower grade.
C7_GradeIsHighestThresholdReached ==
    [][/\ grade' # "none" => GradeAsClaimed(gradeScore', grade')
       /\ (grade # "none" /\ grade' # "none" /\ RLeq(gradeScore, gradeScore'))
              => GradeRank(grade) <= GradeRank(grade')]_vars

\* the grade of 96.9, just below the highest threshold
C7_Witness ==
    /\ grade = "A"
    /\ REq(gradeScore, Rat(969, 10))

\* the five score-tier messages, from the highest tier down
TierMessages == <<
    "Excellent pronunciation! Your speech is very clear and accurate.",
    "Great job! Your pronunciation is good with minor areas for improvement.",
    "Good effort! There are some pronunciation patterns to work on.",
    "Keep practicing! Focus on speaking more slowly and clearly.",
    "Don't worry - pronunciation takes time to improve. Try speaking more slowly." >>

TierOf(sc) ==
    IF sc >= 90 THEN 1 ELSE IF sc >= 80 THEN 2 ELSE IF sc >= 70 THEN 3
    ELSE IF sc >= 60 THEN 4 ELSE 5

\* the five sound patterns in their fixed order
PatternOrder == << <<"t", "h">>, <<"r">>, <<"l">>, <<"v">>, <<"w">> >>

\* the patterns the lowercased target contains and the lowercased user text
\* does not, in the fixed order
MissingPatterns(u, t) ==
    LET Missing(k) == /\ includes(toLowerCase(t), PatternOrder[k])
                      /\ ~includes(toLowerCase(u), PatternOrder[k])
        ks == FilterIndices(Len(PatternOrder), Missing)
    IN  [j \in 1..Len(ks) |-> PatternOrder[ks[j]]]

\* list is: the tier message, a tip per missing pattern, the two generic tips
\* iff score < 80; nothing else
IsTierTipsGeneral(list, u, t, sc) ==
    LET missing == MissingPatterns(u, t)
        n == Len(missing)
    IN  /\ Len(list) = 1 + n + (IF sc < 80 THEN 2 ELSE 0)
        /\ list[1] = Msg(TierMessages[TierOf(sc)])
        /\ \A j \in 1..n : /\ list[1 + j].text = "Practice the sound: "
                            /\ list[1 + j].sounds = <<missing[j]>>
        /\ sc < 80 => SubSeq(list, n + 2, n + 3) = generalTips

\* C9 as stated: generateFeedback returns exactly the tier message, the tips of
\* the missing patterns and, iff score < 80, the two generic tips.
C9_FeedbackIsTierTipsGeneral ==
    fbOp = "generateFeedback"
    => IsTierTipsGeneral(feedback, fbUserText, fbTargetText, fbScore)

\* the messages of parts (a), (b) and (c)
IsTierTipOrGeneral(m) ==
    \/ \E k \in 1..Len(TierMessages) : m = Msg(TierMessages[k])
    \/ m.text = "Practice the sound: "
    \/ \E k \in 1..Len(generalTips) : m = generalTips[k]

\* C9 as amended: generatePronunciationFeedback returns exactly (a), (b), (c);
\* generateFeedback returns that list followed by two performance messages and
\* at most four technical tips, none of which is a message of (a), (b), (c).
C9_FeedbackStartsWithTierTipsGeneral ==
    /\ fbOp = "generatePronunciationFeedback"
       => IsTierTipsGeneral(feedback, fbUserText, fbTargetText, fbScore)
    /\ fbOp = "generateFeedback"
       => LET n == 1 + Len(MissingPatterns(fbUserText, fbTargetText))
                     + (IF fbScore < 80 THEN 2 ELSE 0)
          IN  /\ Len(feedback) \in (n + 2)..(n + 6)
              /\ IsTierTipsGeneral(SubSeq(feedback, 1, n),
                                   fbUserText, fbTargetText, fbScore)
              /\ \A k \in (n + 1)..Len(feedback) : ~IsTierTipOrGeneral(feedback[k])

\* a score of 70 on a target with every pattern and a user text with none
C9_Witness ==
    /\ fbOp = "generateFeedback"
    /\ fbUserText = <<"d", " ", "d", " ", "d", " ", "d">>
    /\ fbTargetText = <<"t", "h", " ", "r", " ", "l", " ", "v", " ", "w">>
    /\ fbScore = 70
    /\ Len(feedback) = 12
    /\ feedback[2].sounds = << <<"t", "h">> >>
    /\ feedback[6].sounds = << <<"w">> >>

\* the last min(3, n) of the prior scores
LastThree(prev) == [k \in 1..MathMin(3, Len(prev)) |->
                        prev[Len(prev) - MathMin(3, Len(prev)) + k]]

\* the message for currentScore - mean(recent) by the thresholds 10, 5, 0, -5,
\* compared after multiplication by the number of recent scores
LadderMessage(cur, recent) ==
    LET k == Len(recent)
        total[j \in 0..k] == IF j = 0 THEN 0 ELSE total[j - 1] + recent[j]
        gain == k * cur - total[k]
    IN  IF gain > 10 * k
        THEN "Amazing improvement! You're really getting the hang of this!"
        ELSE IF gain > 5 * k THEN "Great progress! Keep up the excellent work!"
        ELSE IF gain > 0 THEN "Nice job! You're steadily improving!"
        ELSE IF gain > (0 - 5) * k
        THEN "Stay consistent! Small daily practice leads to big improvements!"
        ELSE "Don't worry about one session. Focus on the long-term progress!"

WelcomeMessage ==
    "Welcome to pronunciation practice! Let's start building your speaking confidence!"

\* C10: generateMotivationalMessage returns the welcome message iff priorScores
\* is empty, and otherwise the message of the ladder >10, >5, >0, >-5, else
\* for currentScore minus the mean of the last min(3, n) prior scores; older
\* prior scores do not affect the result.
C10_MotivationFollowsRecentMean ==
    message # "none" =>
        /\ (message = WelcomeMessage) <=> (previousScores = <<>>)
        /\ previousScores # <<>>
           => message = LadderMessage(currentScore, LastThree(previousScores))

\* four prior scores whose oldest would change the message if it counted
C10_Witness ==
    /\ message = "Amazing improvement! You're really getting the hang of this!"
    /\ currentScore = 15
    /\ previousScores = <<15, 0, 0, 0>>

\* a tongue twister as the specification words it: some character is the
\* first character of two or more words of the lowercased phrase
BeginsTwoWords(phrase) ==
    LET words == NormWords(phrase)
    IN  \E i \in 1..Len(words) : \E j \in (i + 1)..Len(words) :
            words[i][1] = words[j][1]

\* the tier by the specified rule: wordCount is the number of words, and
\* avgWordLength > n means more than n * wordCount non-whitespace characters
SpecifiedTier(phrase) ==
    LET wordCount == Len(WordsOf(phrase))
        letters   == nonWhitespaceLength(phrase)
        complex   == \E pat \in ComplexSounds : includes(toLowerCase(phrase), pat)
    IN  IF wordCount > 15 \/ (wordCount > 0 /\ letters > 6 * wordCount)
           \/ BeginsTwoWords(phrase)
        THEN "advanced"
        ELSE IF wordCount > 10 \/ (wordCount > 0 /\ letters > 5 * wordCount) \/ complex
             THEN "intermediate"
             ELSE "basic"

\* C11: analyzeDifficulty returns 'advanced' exactly when wordCount > 15 or
\* avgWordLength > 6 or some character is the first character of two or more
\* words; otherwise 'intermediate' exactly when wordCount > 10 or
\* avgWordLength > 5 or the lowercased phrase contains a complex sound;
\* otherwise 'basic'; the empty string is 'basic'.
C11_TierAsSpecified ==
    dfOp = "analyzeDifficulty" => dfTier = SpecifiedTier(dfText)

\* C12: calculateDifficulty returns an integer from 1 to 10 for every text,
\* the empty and the whitespace-only text included.
C12_DifficultyWithinRange ==
    dfOp = "calculateDifficulty" => dfRating \in 1..10

\* calculateDifficulty has been applied to the empty string
C12_Witness ==
    /\ dfOp = "calculateDifficulty"
    /\ dfText = <<>>
    /\ dfRating = 1

\* the words one insertion, deletion or substitution of a character away
SingleEdits(w) ==
    {insertAt(w, i, c) : i \in 1..(Len(w) + 1), c \in WordChars} \cup
    {replaceAt(w, i, c) : i \in 1..Len(w), c \in WordChars} \cup
    {SubSeq(w, 1, i - 1) \o SubSeq(w, i + 1, Len(w)) : i \in 1..Len(w)}

\* d is the least number of single-character edits that turn a into b, given
\* that levenshteinDistance is for the neighbours of a: it is 0 exactly for
\* a = b, no edit of a brings it more than one step nearer to b, and unless
\* a = b some edit of a (to a word no longer than the longer of the two)
\* brings it one step nearer
IsEditDistance(d, a, b) ==
    /\ (d = 0) <=> (a = b)
    /\ \A w \in SingleEdits(a) \ {a} : levenshteinDistance(w, b) >= d - 1
    /\ d > 0 => \E w \in SingleEdits(a) :
                    /\ Len(w) <= MathMax(Len(a), Len(b))
                    /\ levenshteinDistance(w, b) = d - 1

\* C13: the distance of two words is their edit distance, it is symmetric
\* and lies between 0 and the length of the longer word; the similarity is
\* (longer - distance) / longer, and 1 for two empty words, it lies between 0
\* and 1 and is 1 exactly for equal words.
C13_SimilarityFromEditDistance ==
    LET longer == MathMax(Len(simStr1), Len(simStr2))
    IN  /\ simOp = "levenshteinDistance" =>
               /\ IsEditDistance(simDistance, simStr1, simStr2)
               /\ simDistance = levenshteinDistance(simStr2, simStr1)
               /\ simDistance >= 0
               /\ simDistance <= longer
        /\ simOp = "calculateStringSimilarity" =>
               /\ IF longer = 0 THEN REq(simSimilarity, Int2Rat(1))
                  ELSE REq(simSimilarity,
                           Rat(longer - levenshteinDistance(simStr1, simStr2), longer))
               /\ RLeq(Int2Rat(0), simSimilarity)
               /\ RLeq(simSimilarity, Int2Rat(1))
               /\ REq(simSimilarity, Int2Rat(1)) <=> (simStr1 = simStr2)

\* the similarity of two words of different lengths that share a character
C13_Witness ==
    /\ simOp = "calculateStringSimilarity"
    /\ simStr1 = <<"a", "b">>
    /\ simStr2 = <<"b", "a", "a">>
    /\ simSimilarity = Rat(1, 3)

\* the step puts the target's word in the place of one word of the user text
\* that differs from it, and leaves the target text alone
IsCorrectionStep ==
    /\ op = "compareTexts"
    /\ op' = "compareTexts"
    /\ targetText' = targetText
    /\ \E i \in 1..MathMin(Len(WordsOf(userText)), Len(WordsOf(targetText))) :
           /\ WordsOf(userText)[i] # WordsOf(targetText)[i]
           /\ WordsOf(userText') =
                  [WordsOf(userText) EXCEPT ![i] = WordsOf(targetText)[i]]

\* C14: replacing a user word that differs from the target word at the same
\* position by that target word never lowers the score of compareTexts.
C14_CorrectionNeverLowersScore ==
    [][IsCorrectionStep => score' >= score]_vars

\* a user text that only a correction produces, scored against its target
C14_Witness ==
    /\ op = "compareTexts"
    /\ userText = <<"a", "b", " ", "A">>
    /\ targetText = <<"a", "b", " ", "a", "b", " ", "a", "b">>
    /\ score = 35

\* C15: when userText or targetText is null or undefined, compareTexts fails
\* with an error instead of returning a score.
C15_AbsentTextIsRejected ==
    (mfOp = "compareTexts" /\ (isAbsent(mfUserText) \/ isAbsent(mfTargetText)))
    => mfOutcome = "threw"

\* processRecording has been called
Called == plPhase # "idle"

\* the call has a Blob and speech recognition to work with
CanTranscribe == plAudioBlob.kind = "blob" /\ plRecognition

C17_EveryCallSettles ==
    Called ~> IF CanTranscribe /\ ~isAbsent(plTargetText)
              THEN plPhase = "resolved" /\ plResult # noResult
              ELSE plPhase = "rejected"

\* the last m elements of list, in order
LastOf(list, m) == [k \in 1..m |-> list[Len(list) - m + k]]

\* the smaller of two numbers
Least(a, b) == IF a <= b THEN a ELSE b

\* C18: after n calls of recordSession from an empty store the history holds
\* the last min(n, 50) scores recorded, in call order, and sessionsCompleted
\* is min(n, 50).
C18_HistoryIsLastFifty ==
    LET kept == Least(Len(recorded), 50)
    IN  /\ sessionHistory = LastOf(recorded, kept)
        /\ practiceOp = "getStats" => stats.sessionsCompleted = kept

\* more than 50 sessions were recorded and the oldest ones are gone
C18_Witness ==
    /\ Len(recorded) = 52
    /\ recorded[2] = 0
    /\ recorded[3] = 100
    /\ sessionHistory[1] = 100
    /\ practiceOp = "getStats"
    /\ stats.sessionsCompleted = 50

\* m is an integer nearest to total / count
IsNearestInteger(m, total, count) ==
    LET off == total - m * count
    IN  2 * (IF off < 0 THEN 0 - off ELSE off) <= count

\* C19: getStats returns sessionsCompleted = the length of the history,
\* averageScore = the mean of the history rounded to the nearest integer (0
\* for an empty history) and recentScores = the last min(10, length) scores
\* in order, and it changes neither the history nor the storage.
C19_StatsOfHistory ==
    [][practiceOp' = "getStats" =>
          /\ stats'.sessionsCompleted = Len(sessionHistory)
          /\ IF Len(sessionHistory) = 0
             THEN stats'.averageScore = 0
             ELSE IsNearestInteger(stats'.averageScore, sumOf(sessionHistory),
                                   Len(sessionHistory))
          /\ stats'.recentScores = LastOf(sessionHistory, Least(10, Len(sessionHistory)))
          /\ sessionHistory' = sessionHistory
          /\ storage' = storage]_vars

\* getStats on eleven sessions: a mean that is no integer, ten recent scores
C19_Witness ==
    /\ practiceOp = "getStats"
    /\ sessionHistory = <<0>> \o [k \in 1..10 |-> 100]
    /\ stats.sessionsCompleted = 11
    /\ stats.averageScore = 91
    /\ stats.recentScores = [k \in 1..10 |-> 100]

\* data.sessionHistory is an array of numbers from 0 to 100
IsArrayOfScores(data) ==
    /\ data.kind = "array"
    /\ \A k \in 1..Len(data.items) :
           data.items[k].type = "number" /\ data.items[k].value \in 0..100

\* C20: importData returns true and replaces the history exactly when
\* data.sessionHistory is an array of numbers in [0, 100]; for any other
\* input it returns false, the history stays what it was and nothing is
\* written to storage.
C20_ImportAcceptsScoresOnly ==
    [][practiceOp' = "importData" =>
          IF IsArrayOfScores(importArg')
          THEN /\ importResult' = TRUE
               /\ sessionHistory' = [k \in 1..Len(importArg'.items) |->
                                        importArg'.items[k].value]
          ELSE /\ importResult' = FALSE
               /\ sessionHistory' = sessionHistory
               /\ storage' = storage]_vars

\* an import that replaced a recorded history
C20_Witness ==
    /\ practiceOp = "importData"
    /\ recorded = <<1>>
    /\ importArg = ArrayData(<<Number(100), Number(0)>>)
    /\ importResult = TRUE
    /\ sessionHistory = <<100, 0>>
    /\ storage.sessionHistory = <<100, 0>>

\* C23: after the sessions 40, 45, 50 and then 80, 85, 90, 92, 95 recorded on
\* a fresh PracticeAgent, getRecommendedDifficulty returns a value greater
\* than 6; after 40, 45, 50 alone it returns a value less than 3.
C23_HardAfterImprovement ==
    trOp = "getRecommendedDifficulty" =>
        /\ trScores = <<40, 45, 50>> => trDifficulty < 3
        /\ trScores = <<40, 45, 50, 80, 85, 90, 92, 95>> => trDifficulty > 6

\* C27: getProgressTrend returns {trend: 'insufficient_data',
\* trendPercentage: 0} exactly when the history holds fewer than 3 sessions;
\* with 3 or more it returns 'improving', 'stable' or 'declining'.
C27_InsufficientBelowThree ==
    trOp = "getProgressTrend" =>
        IF Len(trHistory) < 3
        THEN trTrend = [trend |-> "insufficient_data", trendPercentage |-> Number(0)]
        ELSE trTrend.trend \in {"improving", "stable", "declining"}

\* C28: whenever getProgressTrend reports 'improving', 'stable' or
\* 'declining' for a history of scores in [0, 100], trendPercentage is a
\* finite integer that is not negative.
C28_TrendPercentageFinite ==
    (/\ trOp = "getProgressTrend"
     /\ \A k \in 1..Len(trHistory) : trHistory[k] \in 0..100
     /\ trTrend.trend \in {"improving", "stable", "declining"})
    => (trTrend.trendPercentage.type = "number" /\ trTrend.trendPercentage.value \in Nat)

\* the list of words without the word at position k
WithoutWord(words, k) == SubSeq(words, 1, k - 1) \o SubSeq(words, k + 1, Len(words))

\* the substitutions a shift by one word gives from position i on: at every
\* position whose target word differs from the next one, the target word
\* said as the word after it
RECURSIVE ShiftedPairs(_, _)
ShiftedPairs(target, i) ==
    IF i >= Len(target) THEN <<>>
    ELSE (IF target[i] # target[i + 1]
          THEN <<[original |-> target[i], spoken |-> target[i + 1]]>> ELSE <<>>)
         \o ShiftedPairs(target, i + 1)

\* C25: when the user text is the target with one word deleted at position
\* k, analyzeErrors reports no added word, the last target word as the only
\* missed word, and the substitution {original: target[i], spoken:
\* target[i+1]} for every position i >= k with target[i] # target[i+1];
\* when the user text is the target with one word inserted, it reports the
\* last user word as the only added word and no missed word.
C25_OneWordShiftsTheRest ==
    op = "analyzeErrors" =>
        LET user   == NormWords(userText)
            target == NormWords(targetText)
        IN  /\ \A k \in 1..Len(target) :
                   user = WithoutWord(target, k) =>
                       /\ report.addedWords = <<>>
                       /\ report.missedWords = <<target[Len(target)]>>
                       /\ report.substitutions = ShiftedPairs(target, k)
            /\ \A k \in 1..Len(user) :
                   target = WithoutWord(user, k) =>
                       (report.addedWords = <<user[Len(user)]>> /\ report.missedWords = <<>>)

\* the first of three target words was left out
C25_Witness ==
    /\ op = "analyzeErrors"
    /\ targetText = <<"a", " ", "b", " ", "a", "b">>
    /\ userText = <<"b", " ", "a", "b">>
    /\ report = [missedWords |-> << <<"a", "b">> >>,
                 addedWords |-> <<>>,
                 substitutions |-> <<[original |-> <<"a">>, spoken |-> <<"b">>],
                                     [original |-> <<"b">>, spoken |-> <<"a", "b">>]>>]

\* C30: compareTexts never returns more than 74, so every result of
\* processRecording carries a letter grade of C or lower (C, C-, D+, D, F).
C30_ScoreAtMost74 ==
    /\ op = "compareTexts" => score <= 74
    /\ plPhase = "resolved" =>
           /\ plResult.score <= 74
           /\ plResult.letterGrade \in {"C", "C-", "D+", "D", "F"}

\* the recording was transcribed to the very target text: the highest score
C30_Witness ==
    /\ plPhase = "resolved"
    /\ plTargetText = ShortTranscription
    /\ plResult.transcription = ShortTranscription
    /\ plResult.score = 74
    /\ plResult.letterGrade = "C"

\* C21: when every score of the exporting agent's history lies in [0, 100],
\* importData on another, reset agent accepts what exportData returned, and
\* then both agents have the same history and the same getStats; exportData
\* returns a copy of the history and changes neither the exporting agent nor
\* localStorage, and nothing the other agent does with the exported data
\* changes the exporting agent's history.
C21_ExportImportRoundTrip ==
    [][ /\ ( /\ practiceOp' = "importExported"
             /\ practiceOp = "resetOther"
             /\ exported = exportData(sessionHistory)
             /\ \A k \in 1..Len(sessionHistory) : sessionHistory[k] \in 0..100 )
           => /\ importResult'
              /\ otherHistory' = sessionHistory'
              /\ getStats(otherHistory') = getStats(sessionHistory')
        /\ practiceOp' = "exportData"
           => /\ exported'.sessionHistory = sessionHistory
              /\ exported'.stats = getStats(sessionHistory)
              /\ sessionHistory' = sessionHistory
              /\ storage' = storage
        /\ practiceOp' \in {"constructOther", "resetOther", "importExported", "recordOther"}
           => sessionHistory' = sessionHistory
      ]_vars

\* the other agent has taken over the history 100, 0 of the exporting agent
C21_Witness ==
    /\ practiceOp = "importExported"
    /\ importResult
    /\ sessionHistory = <<100, 0>>
    /\ otherHistory = <<100, 0>>
    /\ exported.stats.averageScore = 50
    /\ otherShares

\* C22: storage is best-effort.  No operation of the agent ends with an
\* exception, whether or not the write to localStorage throws, and the
\* history in memory is updated all the same: recordSession appends the
\* score, resetStats empties the history, an accepted importData replaces
\* it.  An agent constructed when the read throws or the stored text is no
\* JSON starts with an empty history.  When the write works, the stored
\* sessionHistory is the history in memory after each of these operations,
\* and a new agent that can read it reports the same stats.
C22_StorageBestEffort ==
    /\ [](/\ threw = FALSE
          /\ (practiceOp \in {"none", "construct"}
              /\ (~storageReadable \/ storage.form = "unparsable"))
             => sessionHistory = <<>>
          /\ (storageAvailable
              /\ (practiceOp \in {"recordSession", "resetStats"}
                  \/ (practiceOp = "importData" /\ importResult)))
             => /\ storage.present
                /\ storage.form = "history"
                /\ storage.sessionHistory = sessionHistory
                /\ storageReadable
                   => getStats(loadStats(storage, storageReadable)) = getStats(sessionHistory))
    /\ [][ /\ (practiceOp' = "recordSession" /\ recorded' # recorded)
              => /\ sessionHistory' # <<>>
                 /\ sessionHistory'[Len(sessionHistory')] = recorded'[Len(recorded')]
                 /\ Len(sessionHistory') = MathMin(Len(sessionHistory) + 1, MaxSessions)
           /\ practiceOp' = "resetStats" => sessionHistory' = <<>>
           /\ (practiceOp' = "importData" /\ importResult')
              => sessionHistory' = numbersOf(importArg'.items)
         ]_vars

\* a score was recorded in memory although the write threw, by an agent
\* that had found unparsable text in localStorage
C22_Witness ==
    /\ practiceOp = "recordSession"
    /\ ~storageAvailable
    /\ storage.form = "unparsable"
    /\ sessionHistory = <<100>>
    /\ threw = FALSE

\* C26: the agent holds at most 50 scores in every reachable state, and
\* getStats().sessionsCompleted is at most 50.
C26_HistoryAtMostFifty ==
    /\ Len(sessionHistory) <= 50
    /\ practiceOp = "getStats" => stats.sessionsCompleted <= 50

\* C24: a recording that is not stopped by hand stops when the recording
\* time reaches maxDuration: from then on the MediaRecorder is no longer
\* recording, isRecording is false and the interval is cleared.
C24_StopsAtMaxDuration ==
    recRecordingTime >= maxDuration
    => /\ recMediaRecorder # "recording"
       /\ ~recIsRecording
       /\ ~recTimerRef

\* C29: feedback on display was computed against the text on display, and
\* no session was handed to recordPracticeSession while a text other than
\* the one it was scored against was on display.
C29_FeedbackMatchesDisplayedText ==
    /\ (loopSessionStarted /\ loopFeedback.present)
       => loopFeedback.target = loopCurrentText
    /\ \A k \in 1..Len(loopSessions) :
           loopSessions[k].displayed # <<>>
           => loopSessions[k].target = loopSessions[k].displayed

====
